---------------------------- MODULE Spec2Model ----------------------------
(***************************************************************************)
(* Booking orchestration and confirmation engine of the Polimisport bot:   *)
(* BookingService (src/src/handlers/booking_service.py), BookingExecutor   *)
(* (src/src/handlers/booking_executor.py), the three tables they share in  *)
(* Database (src/src/utils/database.py) and the scheduler callbacks wired  *)
(* in PolimisportBot._setup_scheduler (src/main.py).                       *)
(*                                                                         *)
(* Time is counted in whole hours since 00:00 of a Monday (day 0).  A      *)
(* datetime written to the database with strftime is the text              *)
(* 'YYYY-MM-DD HH:MM:SS', modelled as the pair <<day, hour>>, which SQLite *)
(* compares as text, i.e. lexicographically; a date written with           *)
(* strftime('%Y-%m-%d') is the day number alone.                           *)
(*                                                                         *)
(* Each handler runs to completion as one action: the database calls are   *)
(* synchronous and each trigger callback awaits its collaborator calls one *)
(* at a time.                                                              *)
(***************************************************************************)
EXTENDS Integers, Sequences, FiniteSets, TLC

(* ------------------------------ bounds -------------------------------- *)
\* rows ever inserted into scheduled_bookings (AUTOINCREMENT ids 1..MaxScheduled)
MaxScheduled == 2
\* rows ever inserted into periodic_bookings
MaxPeriodic == 1
\* rows ever inserted into pending_confirmations
MaxConfirmations == 2
\* last hour of the clock
MaxNow == 192

\* the clock is observed every eight hours: at 00:00, 08:00 and 16:00
ClockStep == 8
\* create_booking calls counted per scheduled booking (the count saturates here)
MaxCalls == 3
\* last hour at which a date helper is called, and last datetime handed to one
MaxHelperNow == 335
MaxHelperDate == 431
\* the process is first started on a Friday at 00:00
StartNow == 4 * 24

(* --------------------------- program constants ------------------------ *)
authorized_user == 1
default_confirmation_hours_before == 5
default_cancel_hours_before == 1
InstantWindowDays == 2
ExecutionLeadDays == 2

HoursPerDay == 24
DaysPerWeek == 7

\* day_map of get_next_date_for_day
day_map ==
    [d \in {"Lunedì", "Martedì", "Mercoledì", "Giovedì", "Venerdì", "Sabato", "Domenica"} |->
        CASE d = "Lunedì" -> 0
          [] d = "Martedì" -> 1
          [] d = "Mercoledì" -> 2
          [] d = "Giovedì" -> 3
          [] d = "Venerdì" -> 4
          [] d = "Sabato" -> 5
          [] d = "Domenica" -> 6]

\* rows of the courses table the user can pick from (id, day_of_week, time_start hour)
Courses ==
    { [id |-> 1, day_of_week |-> "Lunedì", time_start |-> 18],
      [id |-> 2, day_of_week |-> "Giovedì", time_start |-> 10] }

ScheduledStatuses == {"pending", "completed", "failed", "cancelled"}
ScheduledTerminal == {"completed", "failed", "cancelled"}
ConfirmationStatuses == {"pending", "confirmed", "rejected", "auto_cancelled"}
ConfirmationTerminal == {"confirmed", "rejected", "auto_cancelled"}

\* outcomes of one BookingHandler.create_booking call as seen from inside it
Outcomes == {"success", "failure", "exception"}

NULL == 0

VARIABLES
    now,                \* the local clock, in hours
    scheduled,          \* table scheduled_bookings
    periodic,           \* table periodic_bookings
    confirmations,      \* table pending_confirmations
    nextScheduledId,    \* AUTOINCREMENT sequences of the three tables
    nextPeriodicId,
    nextConfirmationId,
    nextMessageId,      \* next message_id the chat platform hands out
    session,            \* booking_executor.session_manager: "none" | "open" (page set)
    loggedIn,           \* whether the open session's login() succeeded
    periodicRan,        \* whether the daily periodic processor has fired today
    autoCount,          \* per scheduled id, create_booking calls made for it so far
    failedEver,         \* scheduled ids that have reached status failed
    rejCancelled,       \* scheduled ids set to cancelled by reject_booking
    passedOver,         \* failed or reject-cancelled scheduled ids that an executor
                        \* query has since left out although their execution_time had come
    prevPeriodic,       \* <<course_id, target_date>> handled by the periodic run that was
                        \* the directly preceding operation, {} after any other operation
    raised,             \* whether the last service call raised to its caller
    execTask,           \* the executor job's coroutine: where it is suspended and the
                        \* rows of its query it has still to attempt
    userTask,           \* the update handler's coroutine driving the bot's own browser
    helperCall,         \* the last call of a date helper: its arguments and its result
    jobs,               \* the job store of BookingScheduler.scheduler
    userCancelled,      \* rows deleted by cancel_scheduled_booking while they were pending
                        \* and their execution_time had not come
    confTask,           \* per confirmation job, the coroutine of its running firing: where
                        \* it is suspended and the rows of its query still to process
    promptCount         \* per confirmation id, the prompts bot.send_message has delivered

dbVars == <<scheduled, periodic, confirmations, nextScheduledId, nextPeriodicId,
            nextConfirmationId>>
procVars == <<nextMessageId, session, loggedIn, periodicRan>>
obsVars == <<autoCount, failedEver, rejCancelled, passedOver, prevPeriodic, raised>>
taskVars == <<execTask, userTask>>
confVars == <<confTask, promptCount>>
extVars == <<jobs, userCancelled, confVars>>
auxVars == <<taskVars, helperCall, extVars>>
vars == <<now, dbVars, procVars, obsVars, auxVars>>

(* ------------------------------ datetimes ----------------------------- *)
\* datetime.replace(hour=0, minute=0, second=0, microsecond=0)
Midnight(t) == (t \div HoursPerDay) * HoursPerDay

\* datetime.weekday(): Monday is 0
weekday(t) == (t \div HoursPerDay) % DaysPerWeek

\* strftime('%Y-%m-%d')
FormatDate(t) == t \div HoursPerDay

\* strftime('%Y-%m-%d %H:%M:%S')
FormatDateTime(t) == <<t \div HoursPerDay, t % HoursPerDay>>

\* datetime.strptime(text, '%Y-%m-%d %H:%M:%S')
ParseDateTime(s) == s[1] * HoursPerDay + s[2]

\* SQLite's text comparison a <= b of two 'YYYY-MM-DD HH:MM:SS' texts
TextLeq(a, b) == a[1] < b[1] \/ (a[1] = b[1] /\ a[2] <= b[2])

\* datetime('now', 'localtime')
SqlNow(t) == FormatDateTime(t)

(* -------------------------- course date helpers ----------------------- *)
\* get_next_date_for_day without "if days_ahead == 0: days_ahead = 7"
get_next_date_for_day_SameDay(day_name, t) ==
    LET target_day == IF day_name \in DOMAIN day_map THEN day_map[day_name] ELSE 0
        days_ahead == (target_day - weekday(t)) % DaysPerWeek
    IN  Midnight(t + days_ahead * HoursPerDay)

get_next_date_for_day(day_name, t) ==
    LET target_day == IF day_name \in DOMAIN day_map THEN day_map[day_name] ELSE 0
        current_day == weekday(t)
        d0 == (target_day - current_day) % DaysPerWeek
        days_ahead == IF d0 = 0 THEN DaysPerWeek ELSE d0
    IN  Midnight(t + days_ahead * HoursPerDay)

\* is_within_instant_booking_window without its lower bound
is_within_instant_booking_window_NoLowerBound(target_date, t) ==
    (target_date - Midnight(t)) \div HoursPerDay <= InstantWindowDays

\* is_within_instant_booking_window with a window one day longer
is_within_instant_booking_window_ThreeDays(target_date, t) ==
    LET days_difference == (target_date - Midnight(t)) \div HoursPerDay
    IN  0 <= days_difference /\ days_difference <= InstantWindowDays + 1

is_within_instant_booking_window(target_date, t) ==
    LET today == Midnight(t)
        days_difference == (target_date - today) \div HoursPerDay
    IN  0 <= days_difference /\ days_difference <= InstantWindowDays

\* calculate_execution_time that forgets to go back two days
calculate_execution_time_NoLead(target_date) == Midnight(target_date)

\* calculate_execution_time that goes back a whole week
calculate_execution_time_WeekBefore(target_date) ==
    Midnight(target_date - DaysPerWeek * HoursPerDay)

calculate_execution_time(target_date) ==
    Midnight(target_date - ExecutionLeadDays * HoursPerDay)

(* ----------------------------- observation ---------------------------- *)
\* one more create_booking call recorded for scheduled booking id
Bump(f, id) == IF id \in DOMAIN f /\ f[id] < MaxCalls THEN [f EXCEPT ![id] = f[id] + 1] ELSE f

RECURSIVE BumpAll(_, _)
BumpAll(f, ids) == IF ids = <<>> THEN f ELSE BumpAll(Bump(f, Head(ids)), Tail(ids))

SeqToSet(s) == {s[i] : i \in DOMAIN s}

(* ----------------------------- the scheduler -------------------------- *)
\* CronTrigger(hour, minute) fires once a day, IntervalTrigger(minutes=10) every ten minutes
CronTrigger == [kind |-> "cron", every_minutes |-> 24 * 60]
IntervalTrigger == [kind |-> "interval", every_minutes |-> 10]

\* AsyncIOScheduler.add_job(callback, trigger, id, replace_existing=True)
add_job(store, callback, trigger, id) ==
    { j \in store : j.id # id } \cup {[id |-> id, trigger |-> trigger, callback |-> callback]}

add_midnight_booking_executor(store, callback) ==
    add_job(store, callback, CronTrigger, "booking_executor")

add_confirmation_checker(store, callback) ==
    add_job(store, callback, IntervalTrigger, "confirmation_checker")

add_auto_cancel_checker(store, callback) ==
    add_job(store, callback, IntervalTrigger, "auto_cancel_checker")

add_periodic_booking_processor(store, callback) ==
    add_job(store, callback, CronTrigger, "periodic_booking_processor")

\* PolimisportBot._setup_scheduler on the empty job store of a new process
setup_scheduler ==
    add_periodic_booking_processor(
        add_auto_cancel_checker(
            add_confirmation_checker(
                add_midnight_booking_executor({}, "execute_bookings"),
                "check_confirmations"),
            "check_confirmations"),
        "process_periodic")

(* -------------------------------- Init -------------------------------- *)
\* a coroutine that is not running
IdleTask == [pc |-> "idle", todo |-> <<>>]

\* no date helper has been called
NoCall == [fn |-> "none"]

\* the ids of the two jobs that run check_confirmations
ConfJobs == {"confirmation_checker", "auto_cancel_checker"}

\* no firing of a confirmation job is running
IdleConfTasks == [j \in ConfJobs |-> IdleTask]

\* empty tables, no session, nothing running: the process started on a new database
Fresh ==
    /\ scheduled = {}
    /\ periodic = {}
    /\ confirmations = {}
    /\ nextScheduledId = 1
    /\ nextPeriodicId = 1
    /\ nextConfirmationId = 1
    /\ nextMessageId = 1
    /\ session = "none"
    /\ loggedIn = FALSE
    /\ periodicRan = FALSE
    /\ autoCount = [i \in 1..MaxScheduled |-> 0]
    /\ failedEver = {}
    /\ rejCancelled = {}
    /\ passedOver = {}
    /\ prevPeriodic = {}
    /\ raised = FALSE
    /\ execTask = IdleTask
    /\ userTask = IdleTask
    /\ helperCall = NoCall
    /\ jobs = setup_scheduler
    /\ userCancelled = {}
    /\ confTask = IdleConfTasks
    /\ promptCount = [i \in 1..MaxConfirmations |-> 0]

Init == now = StartNow /\ Fresh

(* ------------------------------ the clock ----------------------------- *)
AdvanceClock ==
    /\ now + ClockStep <= MaxNow
    /\ now' = now + ClockStep
    /\ periodicRan' = (periodicRan /\ FormatDate(now') = FormatDate(now))
    /\ UNCHANGED <<auxVars, dbVars, nextMessageId, session, loggedIn, obsVars>>


(* ------------------------- table scheduled_bookings ------------------- *)
\* INSERT INTO scheduled_bookings: the table carries no uniqueness constraint
add_scheduled_booking(sched, id, booking) ==
    sched \cup {[ id |-> id,
                  user_id |-> booking.user_id,
                  course_id |-> booking.course_id,
                  day_of_week |-> booking.day_of_week,
                  time_start |-> booking.time_start,
                  target_date |-> booking.target_date,
                  execution_time |-> booking.execution_time,
                  status |-> booking.status ]}

\* UPDATE scheduled_bookings SET status = ? WHERE id = ?
update_scheduled_booking_status(sched, booking_id, status) ==
    { IF r.id = booking_id THEN [r EXCEPT !.status = status] ELSE r : r \in sched }

\* delete_scheduled_booking that deletes nothing
delete_scheduled_booking_Keeps(sched, booking_id) == sched

\* DELETE FROM scheduled_bookings WHERE id = ?
delete_scheduled_booking(sched, booking_id) == { r \in sched : r.id # booking_id }

\* rows ordered by the key k[row] (a pair, compared as text), ties in rowid order
RECURSIVE OrderBy(_, _)
OrderBy(rows, k) ==
    IF rows = {} THEN <<>>
    ELSE LET first == CHOOSE r \in rows : \A q \in rows :
                          \/ r = q
                          \/ (TextLeq(k[r], k[q]) /\ k[r] # k[q])
                          \/ (k[r] = k[q] /\ r.id < q.id)
         IN  <<first>> \o OrderBy(rows \ {first}, k)

ExecutionTimeKey(rows) == [r \in rows |-> r.execution_time]

\* DueScheduled with the status filter lost: every row whose time has come and that
\* has not completed is selected again
DueScheduled_NoStatusFilter(sched, t) ==
    { r \in sched : r.status # "completed" /\ TextLeq(r.execution_time, SqlNow(t)) }

\* DueScheduled that selects only the rows whose execution_time falls on the current day
DueScheduled_OnlyToday(sched, t) ==
    { r \in sched : /\ r.status = "pending"
                     /\ TextLeq(r.execution_time, SqlNow(t))
                     /\ r.execution_time[1] = SqlNow(t)[1] }

\* SELECT ... WHERE status = 'pending' AND execution_time <= datetime('now','localtime')
\* ORDER BY execution_time
DueScheduled(sched, t) ==
    { r \in sched : r.status = "pending" /\ TextLeq(r.execution_time, SqlNow(t)) }

\* ids of the rows the query leaves out although their execution_time has come
NotSelected(sched, t) ==
    { r.id : r \in { q \in sched : TextLeq(q.execution_time, SqlNow(t)) } \ DueScheduled(sched, t) }

\* get_pending_scheduled_bookings without its ORDER BY: the rows come in rowid order
get_pending_scheduled_bookings_Unordered(sched, t) ==
    OrderBy(DueScheduled(sched, t), [r \in sched |-> <<0, 0>>])

get_pending_scheduled_bookings(sched, t) ==
    OrderBy(DueScheduled(sched, t), ExecutionTimeKey(sched))

(* ------------------------ scheduled booking requests ------------------ *)
\* the booking_data / scheduled_data dictionary built for one occurrence
ScheduledData(src, target_date) ==
    [ user_id |-> src.user_id,
      course_id |-> src.course_id,
      day_of_week |-> src.day_of_week,
      time_start |-> src.time_start,
      target_date |-> FormatDate(target_date),
      execution_time |-> FormatDateTime(calculate_execution_time(target_date)),
      status |-> "pending" ]

\* BookingService.create_scheduled_booking(user_id, course), reached from _book_scheduled
create_scheduled_booking(course) ==
    /\ nextScheduledId <= MaxScheduled
    /\ LET target_date == get_next_date_for_day(course.day_of_week, now)
           booking_data == ScheduledData([user_id |-> authorized_user,
                                          course_id |-> course.id,
                                          day_of_week |-> course.day_of_week,
                                          time_start |-> course.time_start], target_date)
       IN  /\ scheduled' = add_scheduled_booking(scheduled, nextScheduledId, booking_data)
           /\ prevPeriodic' = {}
           /\ raised' = FALSE
    /\ nextScheduledId' = nextScheduledId + 1
    /\ UNCHANGED <<auxVars, now, periodic, confirmations, nextPeriodicId, nextConfirmationId,
                   procVars, autoCount, failedEver, rejCancelled, passedOver>>

\* BookingService.cancel_scheduled_booking(booking_id), reached from _delete_scheduled
cancel_scheduled_booking(booking_id) ==
    /\ scheduled' = delete_scheduled_booking(scheduled, booking_id)
    /\ userCancelled' = userCancelled \cup
                          { r \in scheduled : /\ r.id = booking_id
                                              /\ r.status = "pending"
                                              /\ ~TextLeq(r.execution_time, SqlNow(now)) }
    /\ prevPeriodic' = {}
    /\ raised' = FALSE
    /\ UNCHANGED <<taskVars, helperCall, jobs, confVars, now, periodic, confirmations, nextScheduledId, nextPeriodicId,
                   nextConfirmationId, procVars, autoCount, failedEver, rejCancelled, passedOver>>

(* -------------------------- table periodic_bookings ------------------- *)
\* INSERT INTO periodic_bookings (is_active defaults to 1)
add_periodic_booking(per, id, booking) ==
    per \cup {[ id |-> id,
                user_id |-> booking.user_id,
                course_id |-> booking.course_id,
                day_of_week |-> booking.day_of_week,
                time_start |-> booking.time_start,
                requires_confirmation |-> booking.requires_confirmation,
                confirmation_hours_before |-> booking.confirmation_hours_before,
                cancel_hours_before |-> booking.cancel_hours_before,
                is_active |-> TRUE ]}

\* position of a day_of_week text in SQLite's ORDER BY day_of_week
DayOrder(d) ==
    CASE d = "Domenica" -> 0
      [] d = "Giovedì" -> 1
      [] d = "Lunedì" -> 2
      [] d = "Martedì" -> 3
      [] d = "Mercoledì" -> 4
      [] d = "Sabato" -> 5
      [] d = "Venerdì" -> 6
      [] OTHER -> 7

DayTimeKey(rows) == [r \in rows |-> <<DayOrder(r.day_of_week), r.time_start>>]

\* get_active_periodic_bookings without its WHERE is_active = 1
get_active_periodic_bookings_All(per) == OrderBy(per, DayTimeKey(per))

\* SELECT * FROM periodic_bookings WHERE is_active = 1 ORDER BY day_of_week, time_start
get_active_periodic_bookings(per) == OrderBy({ p \in per : p.is_active }, DayTimeKey(per))

\* Database.get_periodic_bookings() with its defaults (user_id=None, is_active=True)
get_periodic_bookings(per) == OrderBy({ p \in per : p.is_active }, DayTimeKey(per))

\* BookingService.create_periodic_booking, reached from _book_periodic
create_periodic_booking(course, requires_confirmation) ==
    /\ nextPeriodicId <= MaxPeriodic
    /\ periodic' = add_periodic_booking(periodic, nextPeriodicId,
            [ user_id |-> authorized_user,
              course_id |-> course.id,
              day_of_week |-> course.day_of_week,
              time_start |-> course.time_start,
              requires_confirmation |-> requires_confirmation,
              confirmation_hours_before |-> default_confirmation_hours_before,
              cancel_hours_before |-> default_cancel_hours_before ])
    /\ nextPeriodicId' = nextPeriodicId + 1
    /\ prevPeriodic' = {}
    /\ raised' = FALSE
    /\ UNCHANGED <<auxVars, now, scheduled, confirmations, nextScheduledId, nextConfirmationId,
                   procVars, autoCount, failedEver, rejCancelled, passedOver>>

\* UPDATE periodic_bookings SET is_active = ? WHERE id = ?
toggle_periodic_booking(per, booking_id, is_active) ==
    { IF p.id = booking_id THEN [p EXCEPT !.is_active = is_active] ELSE p : p \in per }

\* PolimisportBot._toggle_periodic(booking_id): it looks the booking up among
\* get_user_periodic_bookings(user), i.e. the active ones, and writes the negation
toggle_periodic(booking_id) ==
    /\ \E p \in SeqToSet(get_periodic_bookings(periodic)) :
          /\ p.id = booking_id
          /\ periodic' = toggle_periodic_booking(periodic, booking_id, ~p.is_active)
    /\ prevPeriodic' = {}
    /\ raised' = FALSE
    /\ UNCHANGED <<auxVars, now, scheduled, confirmations, nextScheduledId, nextPeriodicId,
                   nextConfirmationId, procVars, autoCount, failedEver, rejCancelled, passedOver>>

\* BookingService.delete_periodic_booking(booking_id)
delete_periodic_booking(booking_id) ==
    /\ periodic' = { p \in periodic : p.id # booking_id }
    /\ prevPeriodic' = {}
    /\ raised' = FALSE
    /\ UNCHANGED <<auxVars, now, scheduled, confirmations, nextScheduledId, nextPeriodicId,
                   nextConfirmationId, procVars, autoCount, failedEver, rejCancelled, passedOver>>

(* ------------------------ table pending_confirmations ----------------- *)
\* add_pending_confirmation that loses the link to the scheduled booking
add_pending_confirmation_Unlinked(confs, id, confirmation) ==
    confs \cup {[ id |-> id,
                  user_id |-> confirmation.user_id,
                  periodic_booking_id |-> confirmation.periodic_booking_id,
                  scheduled_booking_id |-> NULL,
                  confirmation_message_id |-> NULL,
                  target_date |-> confirmation.target_date,
                  confirmation_deadline |-> confirmation.confirmation_deadline,
                  cancel_deadline |-> confirmation.cancel_deadline,
                  status |-> "pending" ]}

\* INSERT INTO pending_confirmations (status defaults to 'pending')
add_pending_confirmation(confs, id, confirmation) ==
    confs \cup {[ id |-> id,
                  user_id |-> confirmation.user_id,
                  periodic_booking_id |-> confirmation.periodic_booking_id,
                  scheduled_booking_id |-> confirmation.scheduled_booking_id,
                  confirmation_message_id |-> NULL,
                  target_date |-> confirmation.target_date,
                  confirmation_deadline |-> confirmation.confirmation_deadline,
                  cancel_deadline |-> confirmation.cancel_deadline,
                  status |-> "pending" ]}

\* UPDATE pending_confirmations SET status = ? WHERE id = ?
update_confirmation_status(confs, confirmation_id, status) ==
    { IF c.id = confirmation_id THEN [c EXCEPT !.status = status] ELSE c : c \in confs }

\* UPDATE pending_confirmations SET confirmation_message_id = ? WHERE id = ?
update_confirmation_message_id(confs, confirmation_id, message_id) ==
    { IF c.id = confirmation_id THEN [c EXCEPT !.confirmation_message_id = message_id] ELSE c :
      c \in confs }

ConfirmationDeadlineKey(rows) == [c \in rows |-> c.confirmation_deadline]

\* Database.get_pending_confirmations() with its defaults (user_id=None, status='pending')
get_pending_confirmations(confs) ==
    OrderBy({ c \in confs : c.status = "pending" }, ConfirmationDeadlineKey(confs))

\* SELECT ... WHERE status = 'pending' AND ((confirmation_message_id IS NULL AND
\* confirmation_deadline <= now) OR cancel_deadline <= now) ORDER BY confirmation_deadline
NeedingAction(confs, t) ==
    { c \in confs :
        /\ c.status = "pending"
        /\ \/ (c.confirmation_message_id = NULL /\ TextLeq(c.confirmation_deadline, SqlNow(t)))
           \/ TextLeq(c.cancel_deadline, SqlNow(t)) }

get_confirmations_needing_action(confs, t) ==
    OrderBy(NeedingAction(confs, t), ConfirmationDeadlineKey(confs))

(* ---------------------- periodic booking processing ------------------- *)
\* ConfirmationData with the two hour settings taken for one another
ConfirmationData_SwappedHours(p, scheduled_id, target_date) ==
    LET course_datetime == Midnight(target_date) + p.time_start
    IN  [ user_id |-> p.user_id,
          periodic_booking_id |-> p.id,
          scheduled_booking_id |-> scheduled_id,
          target_date |-> FormatDate(target_date),
          confirmation_deadline |-> FormatDateTime(course_datetime - p.cancel_hours_before),
          cancel_deadline |-> FormatDateTime(course_datetime - p.confirmation_hours_before) ]

\* BookingService._create_confirmation_for_scheduled: the confirmation_data dictionary
ConfirmationData(p, scheduled_id, target_date) ==
    LET course_datetime == Midnight(target_date) + p.time_start
        confirmation_deadline == course_datetime - p.confirmation_hours_before
        cancel_deadline == course_datetime - p.cancel_hours_before
    IN  [ user_id |-> p.user_id,
          periodic_booking_id |-> p.id,
          scheduled_booking_id |-> scheduled_id,
          target_date |-> FormatDate(target_date),
          confirmation_deadline |-> FormatDateTime(confirmation_deadline),
          cancel_deadline |-> FormatDateTime(cancel_deadline) ]

\* the body of the loop of process_periodic_bookings_for_week for one periodic booking;
\* st carries the tables, the id sequences and the list being built
PeriodicStep(st, p, t) ==
    LET next_date == get_next_date_for_day(p.day_of_week, t)
    IN  IF is_within_instant_booking_window(next_date, t) THEN st
        ELSE LET scheduled_id == st.nextSid
                 sched1 == add_scheduled_booking(st.sched, scheduled_id,
                                                 ScheduledData(p, next_date))
                 withConf == p.requires_confirmation
             IN  [ sched |-> sched1,
                   confs |-> IF withConf
                             THEN add_pending_confirmation(st.confs, st.nextCid,
                                      ConfirmationData(p, scheduled_id, next_date))
                             ELSE st.confs,
                   nextSid |-> st.nextSid + 1,
                   nextCid |-> IF withConf THEN st.nextCid + 1 ELSE st.nextCid,
                   created |-> st.created \cup {scheduled_id},
                   targets |-> st.targets \cup {<<p.course_id, FormatDate(next_date)>>} ]

RECURSIVE PeriodicLoop(_, _, _)
PeriodicLoop(st, active, t) ==
    IF active = <<>> THEN st
    ELSE PeriodicLoop(PeriodicStep(st, Head(active), t), Tail(active), t)

\* BookingService.process_periodic_bookings_for_week
process_periodic_bookings_for_week(sched, confs, per, nextSid, nextCid, t) ==
    PeriodicLoop([ sched |-> sched, confs |-> confs, nextSid |-> nextSid,
                   nextCid |-> nextCid, created |-> {}, targets |-> {} ],
                 get_active_periodic_bookings(per), t)

\* the daily periodic_booking_processor trigger: process_periodic ->
\* BookingExecutor.process_periodic_bookings -> process_periodic_bookings_for_week
process_periodic ==
    /\ ~periodicRan
    /\ LET r == process_periodic_bookings_for_week(scheduled, confirmations, periodic,
                                                   nextScheduledId, nextConfirmationId, now)
       IN  /\ r.nextSid <= MaxScheduled + 1
           /\ r.nextCid <= MaxConfirmations + 1
           /\ scheduled' = r.sched
           /\ confirmations' = r.confs
           /\ nextScheduledId' = r.nextSid
           /\ nextConfirmationId' = r.nextCid
           /\ prevPeriodic' = r.targets
           /\ raised' = FALSE
    /\ periodicRan' = TRUE
    /\ UNCHANGED <<auxVars, now, periodic, nextPeriodicId, nextMessageId, session, loggedIn,
                   autoCount, failedEver, rejCancelled, passedOver>>

(* ---------------------- scheduled booking execution ------------------- *)
\* what BookingHandler.create_booking returns: it catches every exception of the
\* browser automation and returns False for it
create_booking(outcome) == outcome = "success"

\* execute_single_booking that ignores what create_booking returned
execute_single_booking_AlwaysCompleted(st, booking, outcome) ==
    [ sched |-> update_scheduled_booking_status(st.sched, booking.id, "completed"),
      calls |-> Append(st.calls, booking.id),
      notified |-> Append(st.notified, <<"success", booking.id>>),
      failed |-> st.failed ]

\* BookingExecutor._execute_single_booking for one row of the query's result;
\* st carries the table and the calls and notifications made so far
execute_single_booking(st, booking, outcome) ==
    LET success == create_booking(outcome)
        status == IF success THEN "completed" ELSE "failed"
    IN  [ sched |-> update_scheduled_booking_status(st.sched, booking.id, status),
          calls |-> Append(st.calls, booking.id),
          notified |-> Append(st.notified,
                              <<IF success THEN "success" ELSE "failure", booking.id>>),
          failed |-> IF success THEN st.failed ELSE st.failed \cup {booking.id} ]

\* ExecuteLoop that lets the first failed booking end the loop
RECURSIVE ExecuteLoop_AbortOnFailure(_, _, _)
ExecuteLoop_AbortOnFailure(st, pending, outcomes) ==
    IF pending = <<>> THEN st
    ELSE LET st1 == execute_single_booking(st, Head(pending), Head(outcomes))
         IN  IF create_booking(Head(outcomes))
             THEN ExecuteLoop_AbortOnFailure(st1, Tail(pending), Tail(outcomes))
             ELSE st1

RECURSIVE ExecuteLoop(_, _, _)
ExecuteLoop(st, pending, outcomes) ==
    IF pending = <<>> THEN st
    ELSE ExecuteLoop(execute_single_booking(st, Head(pending), Head(outcomes)),
                     Tail(pending), Tail(outcomes))

\* BookingExecutor.execute_pending_scheduled_bookings with a session manager set
execute_pending_scheduled_bookings(sched, t, outcomes) ==
    ExecuteLoop([ sched |-> sched, calls |-> <<>>, notified |-> <<>>, failed |-> {} ],
                get_pending_scheduled_bookings(sched, t), outcomes)

Ids(rows) == [i \in DOMAIN rows |-> rows[i].id]

\* whether the trigger callback has to create, start and log in a SessionManager
NeedsSession == session # "open"

\* the daily booking_executor trigger, execute_bookings of _setup_scheduler:
\* ensure a session (start and login), then execute_pending_scheduled_bookings.
\* startOk: the browser starts; loginOk: what SessionManager.login() returns
execute_bookings(startOk, loginOk, outcomes) ==
    LET pending == get_pending_scheduled_bookings(scheduled, now)
        starts == NeedsSession
        aborted == starts /\ ~startOk
        logged == IF starts THEN loginOk ELSE loggedIn
        r == execute_pending_scheduled_bookings(scheduled, now, outcomes)
    IN  /\ starts \/ (startOk /\ loginOk)
        /\ Len(outcomes) = IF aborted THEN 0 ELSE Len(pending)
        /\ \A i \in DOMAIN outcomes : outcomes[i] = "success" => logged
        /\ session' = IF aborted THEN "none" ELSE "open"
        /\ loggedIn' = IF aborted THEN FALSE ELSE logged
        /\ scheduled' = IF aborted THEN scheduled ELSE r.sched
        /\ autoCount' = IF aborted THEN autoCount ELSE BumpAll(autoCount, r.calls)
        /\ failedEver' = IF aborted THEN failedEver ELSE failedEver \cup r.failed
        /\ passedOver' = IF aborted THEN passedOver
                          ELSE passedOver \cup (NotSelected(scheduled, now)
                                                \cap (failedEver \cup rejCancelled))
        /\ prevPeriodic' = {}
        /\ raised' = FALSE
        /\ UNCHANGED <<auxVars, now, periodic, confirmations, nextScheduledId, nextPeriodicId,
                       nextConfirmationId, nextMessageId, periodicRan, rejCancelled>>

\* every sequence of at most n outcomes
OutcomeSeqs(n) == UNION { [1..k -> Outcomes] : k \in 0..n }

\* the process is stopped and started again: the tables persist, the session and the
\* running coroutines do not
Restart ==
    /\ session = "open"
    /\ session' = "none"
    /\ loggedIn' = FALSE
    /\ prevPeriodic' = {}
    /\ raised' = FALSE
    /\ execTask' = IdleTask
    /\ userTask' = IdleTask
    /\ jobs' = setup_scheduler
    /\ confTask' = IdleConfTasks
    /\ UNCHANGED <<helperCall, userCancelled, promptCount, now, dbVars, nextMessageId, periodicRan, autoCount, failedEver,
                   rejCancelled, passedOver>>

(* ------------------------ confirmation management --------------------- *)
\* whether _send_confirmation_request reaches bot.send_message for this confirmation:
\* it returns early when the periodic booking is not among get_periodic_bookings()
ReachesSend(per, confirmation) ==
    \E i \in DOMAIN get_periodic_bookings(per) :
        get_periodic_bookings(per)[i].id = confirmation.periodic_booking_id

\* send_confirmation_request that sends the prompt and forgets the returned message_id
send_confirmation_request_NoStore(st, per, confirmation, sendOk) ==
    IF ReachesSend(per, confirmation) /\ sendOk
    THEN [st EXCEPT !.nextMsg = st.nextMsg + 1,
                    !.notified = Append(st.notified, <<"prompt", confirmation.id>>)]
    ELSE st

\* BookingExecutor._send_confirmation_request; sendOk: bot.send_message returns a message
send_confirmation_request(st, per, confirmation, sendOk) ==
    IF ReachesSend(per, confirmation) /\ sendOk
    THEN [st EXCEPT !.confs = update_confirmation_message_id(st.confs, confirmation.id,
                                                             st.nextMsg),
                    !.nextMsg = st.nextMsg + 1,
                    !.notified = Append(st.notified, <<"prompt", confirmation.id>>)]
    ELSE st

\* BookingExecutor._auto_cancel_unconfirmed
auto_cancel_unconfirmed(st, confirmation) ==
    [st EXCEPT !.sched = IF confirmation.scheduled_booking_id # NULL
                         THEN update_scheduled_booking_status(st.sched,
                                  confirmation.scheduled_booking_id, "cancelled")
                         ELSE st.sched,
               !.confs = update_confirmation_status(st.confs, confirmation.id,
                                                    "auto_cancelled"),
               !.notified = Append(st.notified, <<"auto_cancelled", confirmation.id>>)]

\* the body of the loop of process_pending_confirmations for one row of the query's result
ConfirmationStep(st, per, confirmation, sendOk, t) ==
    IF confirmation.confirmation_message_id = NULL
    THEN send_confirmation_request(st, per, confirmation, sendOk)
    ELSE IF t >= ParseDateTime(confirmation.cancel_deadline)
         THEN auto_cancel_unconfirmed(st, confirmation)
         ELSE st

RECURSIVE ConfirmationLoop(_, _, _, _, _)
ConfirmationLoop(st, per, todo, sendOks, t) ==
    IF todo = <<>> THEN st
    ELSE ConfirmationLoop(ConfirmationStep(st, per, Head(todo), Head(sendOks), t),
                          per, Tail(todo), Tail(sendOks), t)

\* BookingExecutor.process_pending_confirmations
process_pending_confirmations(sched, confs, per, nextMsg, t, sendOks) ==
    ConfirmationLoop([ sched |-> sched, confs |-> confs, nextMsg |-> nextMsg,
                       notified |-> <<>> ],
                     per, get_confirmations_needing_action(confs, t), sendOks, t)

\* the 10-minute confirmation trigger, check_confirmations of _setup_scheduler
check_confirmations(sendOks) ==
    LET todo == get_confirmations_needing_action(confirmations, now)
        r == process_pending_confirmations(scheduled, confirmations, periodic,
                                           nextMessageId, now, sendOks)
    IN  /\ Len(sendOks) = Len(todo)
        /\ \A i \in DOMAIN todo :
              ~sendOks[i] => (todo[i].confirmation_message_id = NULL
                              /\ ReachesSend(periodic, todo[i]))
        /\ scheduled' = r.sched
        /\ confirmations' = r.confs
        /\ nextMessageId' = r.nextMsg
        /\ prevPeriodic' = {}
        /\ raised' = FALSE
        /\ UNCHANGED <<auxVars, now, periodic, nextScheduledId, nextPeriodicId, nextConfirmationId,
                       session, loggedIn, periodicRan, autoCount, failedEver, rejCancelled, passedOver>>

BoolSeqs(n) == UNION { [1..k -> BOOLEAN] : k \in 0..n }

StatusOf(rows, id) ==
    IF \E r \in rows : r.id = id THEN (CHOOSE r \in rows : r.id = id).status ELSE "none"

\* BookingService.confirm_booking(confirmation_id), reached from _confirm_booking
confirm_booking(confirmation_id) ==
    /\ confirmations' = update_confirmation_status(confirmations, confirmation_id, "confirmed")
    /\ prevPeriodic' = {}
    /\ raised' = FALSE
    /\ UNCHANGED <<auxVars, now, scheduled, periodic, nextScheduledId, nextPeriodicId,
                   nextConfirmationId, procVars, autoCount, failedEver, rejCancelled, passedOver>>

\* RejectedScheduledId of a reject_booking that forgets the linked scheduled booking
RejectedScheduledId_None(confs, confirmation_id) == NULL

\* the scheduled booking reject_booking cancels: that of the confirmation it finds
\* among get_pending_confirmations(), NULL when it finds none
RejectedScheduledId(confs, confirmation_id) ==
    LET found == { c \in SeqToSet(get_pending_confirmations(confs)) : c.id = confirmation_id }
    IN  IF found = {} THEN NULL ELSE (CHOOSE c \in found : TRUE).scheduled_booking_id

\* BookingService.reject_booking(confirmation_id), reached from _reject_booking
reject_booking(confirmation_id) ==
    LET sid == RejectedScheduledId(confirmations, confirmation_id)
    IN  /\ scheduled' = IF sid # NULL
                        THEN update_scheduled_booking_status(scheduled, sid, "cancelled")
                        ELSE scheduled
        /\ confirmations' = update_confirmation_status(confirmations, confirmation_id,
                                                       "rejected")
        /\ rejCancelled' = IF sid # NULL /\ (\E r \in scheduled : r.id = sid)
                           THEN rejCancelled \cup {sid} ELSE rejCancelled
        /\ prevPeriodic' = {}
        /\ raised' = FALSE
        /\ UNCHANGED <<auxVars, now, periodic, nextScheduledId, nextPeriodicId, nextConfirmationId,
                       procVars, autoCount, failedEver, passedOver>>

(* ------------------------------- Next --------------------------------- *)
Next ==
    \/ AdvanceClock
    \/ \E course \in Courses : create_scheduled_booking(course)
    \/ \E r \in scheduled : cancel_scheduled_booking(r.id)
    \/ \E course \in Courses, rc \in BOOLEAN : create_periodic_booking(course, rc)
    \/ \E p \in periodic : toggle_periodic(p.id)
    \/ \E p \in periodic : delete_periodic_booking(p.id)
    \/ process_periodic
    \/ \E startOk \in BOOLEAN, loginOk \in BOOLEAN, outcomes \in OutcomeSeqs(MaxScheduled) :
          execute_bookings(startOk, loginOk, outcomes)
    \/ \E sendOks \in BoolSeqs(MaxConfirmations) : check_confirmations(sendOks)
    \/ \E c \in confirmations : confirm_booking(c.id)
    \/ \E c \in confirmations : reject_booking(c.id)
    \/ Restart

Spec == Init /\ [][Next]_vars

(* ------------------- ticks over two periodic bookings ------------------ *)
\* The state on the Friday the process starts, after the user has made two periodic
\* bookings (the first for the Monday course with confirmation) and the periodic
\* processor has run once: the ticks that follow find several items due together.
InitTicks ==
    \E course \in Courses, rc \in BOOLEAN :
        LET P(c, r) == [ user_id |-> authorized_user,
                         course_id |-> c.id,
                         day_of_week |-> c.day_of_week,
                         time_start |-> c.time_start,
                         requires_confirmation |-> r,
                         confirmation_hours_before |-> default_confirmation_hours_before,
                         cancel_hours_before |-> default_cancel_hours_before ]
            first == CHOOSE c \in Courses : c.day_of_week = "Lunedì"
            per == add_periodic_booking(add_periodic_booking({}, 1, P(first, TRUE)),
                                        2, P(course, rc))
            r == process_periodic_bookings_for_week({}, {}, per, 1, 1, StartNow)
        IN  /\ now = StartNow
            /\ periodic = per
            /\ scheduled = r.sched
            /\ confirmations = r.confs
            /\ nextScheduledId = r.nextSid
            /\ nextConfirmationId = r.nextCid
            /\ nextPeriodicId = 3
            /\ nextMessageId = 1
            /\ session = "none"
            /\ loggedIn = FALSE
            /\ periodicRan = TRUE
            /\ autoCount = [i \in 1..MaxScheduled |-> 0]
            /\ failedEver = {}
            /\ rejCancelled = {}
            /\ passedOver = {}
            /\ prevPeriodic = {}
            /\ raised = FALSE
            /\ execTask = IdleTask
            /\ userTask = IdleTask
            /\ helperCall = NoCall
            /\ jobs = setup_scheduler
            /\ userCancelled = {}
            /\ confTask = IdleConfTasks
            /\ promptCount = [i \in 1..MaxConfirmations |-> 0]

NextTicks ==
    \/ AdvanceClock
    \/ \E p \in periodic : toggle_periodic(p.id)
    \/ \E p \in periodic : delete_periodic_booking(p.id)
    \/ \E startOk \in BOOLEAN, loginOk \in BOOLEAN, outcomes \in OutcomeSeqs(MaxScheduled) :
          execute_bookings(startOk, loginOk, outcomes)
    \/ \E sendOks \in BoolSeqs(MaxConfirmations) : check_confirmations(sendOks)
    \/ \E c \in confirmations : confirm_booking(c.id)
    \/ \E c \in confirmations : reject_booking(c.id)
    \/ Restart

SpecTicks == InitTicks /\ [][NextTicks]_vars

(* ---------------- coroutines interleaving at their awaits -------------- *)
\* The execute_bookings job and the update handlers are coroutines of one event loop:
\* each runs until it awaits a browser call, and the other may run until that call
\* returns.  The job drives booking_executor.session_manager, the handlers drive the
\* bot's own session (_ensure_session, _close_session); no lock joins the two.

\* the handlers that drive the browser
UserActions == {"book_instant", "cancel_booking", "refresh"}

\* the automation call a coroutine is suspended in, if any
ExecInFlight == execTask.pc \in {"login", "create_booking"}
UserInFlight == userTask.pc \in {"login", "call"}

\* execute_pending_scheduled_bookings up to its first await: the query, then the
\* first create_booking call if a row is due
ExecQuery(sched, t) ==
    LET pending == get_pending_scheduled_bookings(sched, t)
    IN  IF pending = <<>> THEN IdleTask ELSE [pc |-> "create_booking", todo |-> pending]

\* the job fires: it awaits start() and login() when it has no session with a page
ExecStart ==
    /\ execTask.pc = "idle"
    /\ execTask' = IF NeedsSession THEN [pc |-> "login", todo |-> <<>>]
                   ELSE ExecQuery(scheduled, now)
    /\ prevPeriodic' = {}
    /\ raised' = FALSE
    /\ UNCHANGED <<now, dbVars, procVars, autoCount, failedEver, rejCancelled, passedOver,
                   userTask, helperCall, extVars>>

\* start() and login() return to the job: a failed start raises and ends the firing,
\* the result of login() is ignored
ExecLoginReturn(startOk, loginOk) ==
    /\ execTask.pc = "login"
    /\ startOk \/ ~loginOk
    /\ session' = IF startOk THEN "open" ELSE "none"
    /\ loggedIn' = (startOk /\ loginOk)
    /\ execTask' = IF startOk THEN ExecQuery(scheduled, now) ELSE IdleTask
    /\ prevPeriodic' = {}
    /\ raised' = FALSE
    /\ UNCHANGED <<now, dbVars, nextMessageId, periodicRan, autoCount, failedEver,
                   rejCancelled, passedOver, userTask, helperCall, extVars>>

\* create_booking returns to the job: the row's status is written and the next
\* row of the list, if any, is attempted
ExecCallReturn(outcome) ==
    /\ execTask.pc = "create_booking"
    /\ outcome = "success" => loggedIn
    /\ LET booking == Head(execTask.todo)
           r == execute_single_booking([ sched |-> scheduled, calls |-> <<>>,
                                         notified |-> <<>>, failed |-> {} ],
                                       booking, outcome)
       IN  /\ scheduled' = r.sched
           /\ autoCount' = BumpAll(autoCount, r.calls)
           /\ failedEver' = failedEver \cup r.failed
    /\ execTask' = IF Tail(execTask.todo) = <<>> THEN IdleTask
                   ELSE [execTask EXCEPT !.todo = Tail(execTask.todo)]
    /\ prevPeriodic' = {}
    /\ raised' = FALSE
    /\ UNCHANGED <<now, periodic, confirmations, nextScheduledId, nextPeriodicId,
                   nextConfirmationId, procVars, rejCancelled, passedOver, userTask,
                   helperCall, extVars>>

\* _book_instant, _cancel_booking or a refresh starts: _ensure_session awaits
\* start() and login() of the bot's own session
UserStart(action) ==
    /\ userTask.pc = "idle"
    /\ userTask' = [pc |-> "login", todo |-> <<action>>]
    /\ UNCHANGED <<now, dbVars, procVars, obsVars, execTask, helperCall, extVars>>

\* _ensure_session returns or raises ("Login failed"): the handler goes on to its
\* browser call, or straight to _close_session
UserLoginReturn(loginOk) ==
    /\ userTask.pc = "login"
    /\ userTask' = IF loginOk THEN [userTask EXCEPT !.pc = "call"] ELSE IdleTask
    /\ UNCHANGED <<now, dbVars, procVars, obsVars, execTask, helperCall, extVars>>

\* the handler's browser call returns and its finally clause closes the session
UserCallReturn ==
    /\ userTask.pc = "call"
    /\ userTask' = IdleTask
    /\ UNCHANGED <<now, dbVars, procVars, obsVars, execTask, helperCall, extVars>>

NextAsync ==
    \/ AdvanceClock
    \/ \E course \in Courses : create_scheduled_booking(course)
    \/ ExecStart
    \/ \E startOk \in BOOLEAN, loginOk \in BOOLEAN : ExecLoginReturn(startOk, loginOk)
    \/ \E outcome \in Outcomes : ExecCallReturn(outcome)
    \/ \E action \in UserActions : UserStart(action)
    \/ \E loginOk \in BOOLEAN : UserLoginReturn(loginOk)
    \/ UserCallReturn
    \/ Restart

SpecAsync == Init /\ [][NextAsync]_vars

(* ------------------------- the date helpers alone --------------------- *)
\* One call of a helper is observed per behaviour: the helpers read the clock only and
\* write nothing, so a second call at the same hour shows nothing new.
\* BookingService.get_next_date_for_day(day_name) called at the clock's hour
call_get_next_date_for_day(day_name) ==
    /\ helperCall = NoCall
    /\ helperCall' = [ fn |-> "get_next_date_for_day",
                       day_name |-> day_name,
                       result |-> get_next_date_for_day(day_name, now) ]
    /\ UNCHANGED <<now, dbVars, procVars, obsVars, taskVars, extVars>>

\* BookingService.is_within_instant_booking_window(target_date) called at the clock's hour
call_is_within_instant_booking_window(target_date) ==
    /\ helperCall = NoCall
    /\ helperCall' = [ fn |-> "is_within_instant_booking_window",
                       target_date |-> target_date,
                       result |-> is_within_instant_booking_window(target_date, now) ]
    /\ UNCHANGED <<now, dbVars, procVars, obsVars, taskVars, extVars>>

InitDates == now \in 0..MaxHelperNow /\ Fresh

NextDates ==
    \/ \E day_name \in DOMAIN day_map : call_get_next_date_for_day(day_name)
    \/ \E target_date \in 0..MaxHelperDate : call_is_within_instant_booking_window(target_date)

SpecDates == InitDates /\ [][NextDates]_vars

(* ------------------- one tick over items of several dates -------------- *)
\* The process is started again on the Tuesday at 00:00, having been stopped since the
\* periodic processor ran on the Friday over two periodic bookings: the first for the
\* Monday course with confirmation, prompted 3 or 5 hours ahead.  Bookings with
\* different execution times and confirmations with different deadlines are now due
\* together, and the rows inserted first are not those due first.
OrderHours == {3, 5}

TuesdayNow == 8 * HoursPerDay

InitOrder ==
    \E course \in Courses, rc \in BOOLEAN, hours \in OrderHours :
        LET P(c, r, h) == [ user_id |-> authorized_user,
                            course_id |-> c.id,
                            day_of_week |-> c.day_of_week,
                            time_start |-> c.time_start,
                            requires_confirmation |-> r,
                            confirmation_hours_before |-> h,
                            cancel_hours_before |-> default_cancel_hours_before ]
            first == CHOOSE c \in Courses : c.day_of_week = "Lunedì"
            per == add_periodic_booking(
                       add_periodic_booking({}, 1, P(first, TRUE, hours)),
                       2, P(course, rc, default_confirmation_hours_before))
            r == process_periodic_bookings_for_week({}, {}, per, 1, 1, StartNow)
        IN  /\ now = TuesdayNow
            /\ periodic = per
            /\ scheduled = r.sched
            /\ confirmations = r.confs
            /\ nextScheduledId = r.nextSid
            /\ nextConfirmationId = r.nextCid
            /\ nextPeriodicId = 3
            /\ nextMessageId = 1
            /\ session = "none"
            /\ loggedIn = FALSE
            /\ periodicRan = TRUE
            /\ autoCount = [i \in 1..MaxScheduled |-> 0]
            /\ failedEver = {}
            /\ rejCancelled = {}
            /\ passedOver = {}
            /\ prevPeriodic = {}
            /\ raised = FALSE
            /\ execTask = IdleTask
            /\ userTask = IdleTask
            /\ helperCall = NoCall
            /\ jobs = setup_scheduler
            /\ userCancelled = {}
            /\ confTask = IdleConfTasks
            /\ promptCount = [i \in 1..MaxConfirmations |-> 0]

NextOrder ==
    \/ \E startOk \in BOOLEAN, loginOk \in BOOLEAN, outcomes \in OutcomeSeqs(MaxScheduled) :
          execute_bookings(startOk, loginOk, outcomes)
    \/ \E sendOks \in BoolSeqs(MaxConfirmations) : check_confirmations(sendOks)
    \/ \E c \in confirmations : confirm_booking(c.id)
    \/ \E c \in confirmations : reject_booking(c.id)
    \/ Restart

SpecOrder == InitOrder /\ [][NextOrder]_vars

(* --------------------- database writes that raise --------------------- *)
\* Every Database method opens its own connection and commits on leaving it
\* (get_connection): a write that raises is rolled back alone, the writes made by
\* earlier calls stay committed.

\* the body of the loop of process_periodic_bookings_for_week when only st.left more
\* writes succeed: the write after them raises and ends the loop
PeriodicStepFailing(st, p, t) ==
    LET next_date == get_next_date_for_day(p.day_of_week, t)
        scheduled_id == st.nextSid
        st1 == [st EXCEPT !.sched = add_scheduled_booking(st.sched, scheduled_id,
                                                          ScheduledData(p, next_date)),
                          !.nextSid = st.nextSid + 1,
                          !.left = st.left - 1]
    IN  IF st.aborted \/ is_within_instant_booking_window(next_date, t) THEN st
        ELSE IF st.left = 0 THEN [st EXCEPT !.aborted = TRUE]
        ELSE IF ~p.requires_confirmation THEN st1
        ELSE IF st1.left = 0 THEN [st1 EXCEPT !.aborted = TRUE]
        ELSE [st1 EXCEPT !.confs = add_pending_confirmation(st1.confs, st1.nextCid,
                                       ConfirmationData(p, scheduled_id, next_date)),
                         !.nextCid = st1.nextCid + 1,
                         !.left = st1.left - 1]

RECURSIVE PeriodicLoopFailing(_, _, _)
PeriodicLoopFailing(st, active, t) ==
    IF active = <<>> THEN st
    ELSE PeriodicLoopFailing(PeriodicStepFailing(st, Head(active), t), Tail(active), t)

\* the daily periodic trigger when the database raises after `writes` successful
\* writes: the exception leaves process_periodic_bookings_for_week and is logged by
\* the process_periodic callback
process_periodic_failing(writes) ==
    /\ ~periodicRan
    /\ LET r == PeriodicLoopFailing([ sched |-> scheduled, confs |-> confirmations,
                                      nextSid |-> nextScheduledId,
                                      nextCid |-> nextConfirmationId,
                                      left |-> writes, aborted |-> FALSE ],
                                    get_active_periodic_bookings(periodic), now)
       IN  /\ r.aborted
           /\ r.nextSid <= MaxScheduled + 1
           /\ r.nextCid <= MaxConfirmations + 1
           /\ scheduled' = r.sched
           /\ confirmations' = r.confs
           /\ nextScheduledId' = r.nextSid
           /\ nextConfirmationId' = r.nextCid
    /\ prevPeriodic' = {}
    /\ raised' = TRUE
    /\ periodicRan' = TRUE
    /\ UNCHANGED <<auxVars, now, periodic, nextPeriodicId, nextMessageId, session, loggedIn,
                   autoCount, failedEver, rejCancelled, passedOver>>

\* _execute_single_booking raises after its create_booking call (the status write
\* raises) and the except clause of the loop writes status failed
execute_single_booking_raising(st, booking) ==
    [ sched |-> update_scheduled_booking_status(st.sched, booking.id, "failed"),
      calls |-> Append(st.calls, booking.id),
      notified |-> st.notified,
      failed |-> st.failed \cup {booking.id} ]

\* the loop of execute_pending_scheduled_bookings when the attempt of the k-th row raises
RECURSIVE ExecuteLoopRaising(_, _, _, _)
ExecuteLoopRaising(st, pending, outcomes, k) ==
    IF pending = <<>> THEN st
    ELSE ExecuteLoopRaising(IF k = 1 THEN execute_single_booking_raising(st, Head(pending))
                            ELSE execute_single_booking(st, Head(pending), Head(outcomes)),
                            Tail(pending), Tail(outcomes), k - 1)

\* the daily executor trigger when the attempt of the k-th due row raises
execute_bookings_raising(startOk, loginOk, outcomes, k) ==
    LET pending == get_pending_scheduled_bookings(scheduled, now)
        logged == IF NeedsSession THEN loginOk ELSE loggedIn
        r == ExecuteLoopRaising([ sched |-> scheduled, calls |-> <<>>, notified |-> <<>>,
                                  failed |-> {} ], pending, outcomes, k)
    IN  /\ IF NeedsSession THEN startOk ELSE (startOk /\ loginOk)
        /\ k \in DOMAIN pending
        /\ Len(outcomes) = Len(pending)
        /\ \A i \in DOMAIN outcomes : outcomes[i] = "success" => logged
        /\ session' = "open"
        /\ loggedIn' = logged
        /\ scheduled' = r.sched
        /\ autoCount' = BumpAll(autoCount, r.calls)
        /\ failedEver' = failedEver \cup r.failed
        /\ passedOver' = passedOver \cup (NotSelected(scheduled, now)
                                          \cap (failedEver \cup rejCancelled))
        /\ prevPeriodic' = {}
        /\ raised' = FALSE
        /\ UNCHANGED <<auxVars, now, periodic, confirmations, nextScheduledId, nextPeriodicId,
                       nextConfirmationId, nextMessageId, periodicRan, rejCancelled>>

NextFaults ==
    \/ AdvanceClock
    \/ \E course \in Courses : create_scheduled_booking(course)
    \/ \E course \in Courses, rc \in BOOLEAN : create_periodic_booking(course, rc)
    \/ process_periodic
    \/ \E writes \in 0..(2 * MaxPeriodic - 1) : process_periodic_failing(writes)
    \/ \E startOk \in BOOLEAN, loginOk \in BOOLEAN, outcomes \in OutcomeSeqs(MaxScheduled) :
          execute_bookings(startOk, loginOk, outcomes)
    \/ \E startOk \in BOOLEAN, loginOk \in BOOLEAN, outcomes \in OutcomeSeqs(MaxScheduled),
          k \in 1..MaxScheduled : execute_bookings_raising(startOk, loginOk, outcomes, k)

SpecFaults == Init /\ [][NextFaults]_vars

(* ------------------ the service called with any arguments ------------- *)
\* BookingService.create_scheduled_booking and create_periodic_booking take a course
\* dictionary, an optional target_date and the two hour settings from their caller.
\* Here they are called over the whole range of these arguments: a course row whose
\* day_of_week is none of the seven names, a target_date before today, and hour
\* settings in either order.

\* target_date=None
NoDate == -1

\* a row of the courses table whose weekday the day_map does not know
MalformedCourse == [id |-> 3, day_of_week |-> "Lun", time_start |-> 9]

RequestCourses == Courses \cup {MalformedCourse}

\* the target dates a caller passes at hour t: yesterday and three days ahead
RequestDates(t) == {Midnight(t) - HoursPerDay, Midnight(t) + 3 * HoursPerDay}

\* values passed as confirmation_hours_before and as cancel_hours_before
ConfigHours == {1, 5}

\* "if target_date is None: target_date = self.get_next_date_for_day(...)"
ResolvedDate(course, target_date, t) ==
    IF target_date = NoDate THEN get_next_date_for_day(course.day_of_week, t) ELSE target_date

\* BookingService.create_scheduled_booking(user_id, course, target_date)
create_scheduled_booking_on(course, target_date) ==
    /\ nextScheduledId <= MaxScheduled
    /\ LET resolved == ResolvedDate(course, target_date, now)
           booking_data == ScheduledData([user_id |-> authorized_user,
                                          course_id |-> course.id,
                                          day_of_week |-> course.day_of_week,
                                          time_start |-> course.time_start], resolved)
       IN  /\ scheduled' = add_scheduled_booking(scheduled, nextScheduledId, booking_data)
           /\ prevPeriodic' = {}
           /\ raised' = FALSE
    /\ nextScheduledId' = nextScheduledId + 1
    /\ UNCHANGED <<auxVars, now, periodic, confirmations, nextPeriodicId, nextConfirmationId,
                   procVars, autoCount, failedEver, rejCancelled, passedOver>>

\* BookingService.create_periodic_booking(user_id, course, requires_confirmation,
\* confirmation_hours_before, cancel_hours_before)
create_periodic_booking_hours(course, requires_confirmation, confirmation_hours_before, cancel_hours_before) ==
    /\ nextPeriodicId <= MaxPeriodic
    /\ periodic' = add_periodic_booking(periodic, nextPeriodicId,
            [ user_id |-> authorized_user,
              course_id |-> course.id,
              day_of_week |-> course.day_of_week,
              time_start |-> course.time_start,
              requires_confirmation |-> requires_confirmation,
              confirmation_hours_before |-> confirmation_hours_before,
              cancel_hours_before |-> cancel_hours_before ])
    /\ nextPeriodicId' = nextPeriodicId + 1
    /\ prevPeriodic' = {}
    /\ raised' = FALSE
    /\ UNCHANGED <<auxVars, now, scheduled, confirmations, nextScheduledId, nextConfirmationId,
                   procVars, autoCount, failedEver, rejCancelled, passedOver>>

NextService ==
    \/ AdvanceClock
    \/ \E course \in RequestCourses, target_date \in {NoDate} \cup RequestDates(now) :
          create_scheduled_booking_on(course, target_date)
    \/ \E course \in RequestCourses, rc \in BOOLEAN, ch \in ConfigHours, xh \in ConfigHours :
          create_periodic_booking_hours(course, rc, ch, xh)
    \/ \E p \in periodic : delete_periodic_booking(p.id)
    \/ process_periodic

SpecService == Init /\ [][NextService]_vars

(* ------------------------------ properties ---------------------------- *)
Key(r) == <<r.user_id, r.course_id, r.target_date>>

\* SessionManager.start() and login() are called in this step
LoginCalled == session # "open" /\ session' = "open"

C2_AtMostOnePerKey == \A r1, r2 \in scheduled : Key(r1) = Key(r2) => r1 = r2

\* C3: once a ScheduledBooking's status is completed, failed or cancelled, no step
\* changes the status of that row.
C3_TerminalScheduledStays ==
    [][\A r \in scheduled : \A q \in scheduled' :
          (r.status \in ScheduledTerminal /\ q.id = r.id) => q.status = r.status]_vars

\* C4: a PendingConfirmation's status changes only from pending, and only to confirmed,
\* rejected or auto_cancelled; a confirmation in one of these three never changes again.
C4_ConfirmationForwardOnly ==
    [][\A c \in confirmations : \A d \in confirmations' :
          (d.id = c.id /\ d.status # c.status) =>
              (c.status = "pending" /\ d.status \in ConfirmationTerminal)]_vars

\* C5: every ScheduledBooking selected by a tick of execute_pending_scheduled_bookings
\* is passed to the automation collaborator exactly once in that tick and ends the tick
\* completed if the call reported success, failed if it reported failure or raised.
C5_ExecutorOutcome ==
    [][(scheduled' # scheduled \/ autoCount' # autoCount) =>
          \A startOk, loginOk \in BOOLEAN, outcomes \in OutcomeSeqs(MaxScheduled) :
              (execute_bookings(startOk, loginOk, outcomes) /\ ~(NeedsSession /\ ~startOk)) =>
                  LET pending == get_pending_scheduled_bookings(scheduled, now)
                  IN  \A i \in DOMAIN pending :
                          /\ autoCount'[pending[i].id] = autoCount[pending[i].id] + 1
                          /\ StatusOf(scheduled', pending[i].id) =
                                 IF outcomes[i] = "success" THEN "completed" ELSE "failed"]_vars

\* a tick has completed one selected booking and failed another, each called once
C5_Witness ==
    \E a, b \in scheduled :
        /\ a.status = "completed" /\ autoCount[a.id] = 1
        /\ b.status = "failed" /\ autoCount[b.id] = 1

\* C6: when no ScheduledBooking is pending with execution_time <= now, a firing of the
\* executor trigger callback makes no call to the automation collaborator (neither
\* login nor a booking attempt) and changes no persisted record.
C6_NothingDueIsNoOp ==
    [][\A startOk, loginOk \in BOOLEAN :
          (DueScheduled(scheduled, now) = {} /\ execute_bookings(startOk, loginOk, <<>>)) =>
              /\ UNCHANGED dbVars
              /\ autoCount' = autoCount
              /\ ~LoginCalled]_vars

\* C7: a ScheduledBooking that has reached status failed is never passed to the
\* automation collaborator again.
C7_NoRetryOfFailed ==
    [][\A id \in failedEver : autoCount'[id] = autoCount[id]]_vars

\* a failed booking that a later executor query left out, still called only once
C7_Witness ==
    \E r \in scheduled :
        /\ r.id \in failedEver \cap passedOver
        /\ r.status = "failed"
        /\ autoCount[r.id] = 1

\* C8: confirm_booking on a pending PendingConfirmation invokes the automation
\* collaborator in that call, and the confirmation ends confirmed only if the call
\* succeeded; otherwise it stays pending and the caller receives an error.
C8_ConfirmInvokesAutomation ==
    [][\A c \in confirmations :
          (c.status = "pending" /\ confirm_booking(c.id)) =>
              /\ autoCount' # autoCount
              /\ \/ StatusOf(confirmations', c.id) = "confirmed"
                 \/ (StatusOf(confirmations', c.id) = "pending" /\ raised')]_vars

\* C9: confirm_booking on a PendingConfirmation whose status is rejected raises an
\* error to its caller, makes no automation call and leaves the status rejected.
C9_ConfirmRejectedFails ==
    [][\A c \in confirmations :
          (c.status = "rejected" /\ confirm_booking(c.id)) =>
              /\ raised'
              /\ autoCount' = autoCount
              /\ StatusOf(confirmations', c.id) = "rejected"]_vars

\* C10: reject_booking on a pending PendingConfirmation sets it to rejected and sets the
\* linked ScheduledBooking, when there is one, to cancelled; from then on no executor
\* tick passes that booking to the automation collaborator.
C10_RejectCancels ==
    [][/\ \A c \in confirmations :
              (c.status = "pending" /\ reject_booking(c.id)) =>
                  /\ StatusOf(confirmations', c.id) = "rejected"
                  /\ \A r \in scheduled' :
                        r.id = c.scheduled_booking_id => r.status = "cancelled"
       /\ \A id \in rejCancelled : autoCount'[id] = autoCount[id]]_vars

\* a booking never executed, cancelled by the rejection of its confirmation, and left
\* out by a later executor query although its execution_time had come
C10_Witness ==
    \E r \in scheduled : \E c \in confirmations :
        /\ c.scheduled_booking_id = r.id
        /\ c.status = "rejected"
        /\ r.status = "cancelled"
        /\ r.id \in rejCancelled \cap passedOver
        /\ autoCount[r.id] = 0


\* confirmations whose confirmation_message_id is written in this step
HandleWritten ==
    { c \in confirmations :
        \E d \in confirmations' : d.id = c.id
                                    /\ d.confirmation_message_id # c.confirmation_message_id }

C12_AutoCancelAtDeadline ==
    [][\A sendOks \in BoolSeqs(MaxConfirmations) :
          check_confirmations(sendOks) =>
              \A c \in confirmations :
                  (c.status = "pending" /\ now >= ParseDateTime(c.cancel_deadline)) =>
                      /\ StatusOf(confirmations', c.id) = "auto_cancelled"
                      /\ \A r \in scheduled' :
                            r.id = c.scheduled_booking_id => r.status = "cancelled"]_vars

\* C13: the executor makes no create_booking call for a scheduled booking while the
\* confirmation created together with it is still pending.
C13_ConfirmationBeforeExecution ==
    [][\A c \in confirmations :
          (c.status = "pending" /\ c.scheduled_booking_id \in DOMAIN autoCount) =>
              autoCount'[c.scheduled_booking_id] = autoCount[c.scheduled_booking_id]]_vars


\* whether the tick handled the row of get_confirmations_needing_action: its prompt
\* was stored, or it was auto-cancelled at its cancel_deadline
ConfirmationHandled(c) ==
    IF c.confirmation_message_id = NULL
    THEN ReachesSend(periodic, c) =>
             \E d \in confirmations' : d.id = c.id /\ d.confirmation_message_id # NULL
    ELSE now >= ParseDateTime(c.cancel_deadline) =>
             StatusOf(confirmations', c.id) = "auto_cancelled"

\* C14: in a tick where one due item fails (create_booking reports failure or raises,
\* or sending a prompt fails) every other item due in the tick is still processed in
\* that tick: every due booking is attempted and leaves pending, every other due
\* confirmation is handled.
C14_FailureIsolated ==
    [][/\ (session' = "open" /\ UNCHANGED <<now, periodic, confirmations>>) =>
              LET pending == get_pending_scheduled_bookings(scheduled, now)
              IN  \A startOk, loginOk \in BOOLEAN, outcomes \in [1..Len(pending) -> Outcomes] :
                      (/\ \E i \in DOMAIN outcomes : outcomes[i] # "success"
                       /\ ~(NeedsSession /\ ~startOk)
                       /\ execute_bookings(startOk, loginOk, outcomes)) =>
                          \A r \in DueScheduled(scheduled, now) :
                              /\ autoCount'[r.id] = autoCount[r.id] + 1
                              /\ StatusOf(scheduled', r.id) \in {"completed", "failed"}
       /\ UNCHANGED <<now, periodic, session, autoCount>> =>
              LET todo == get_confirmations_needing_action(confirmations, now)
              IN  \A sendOks \in [1..Len(todo) -> BOOLEAN] :
                      (/\ \E i \in DOMAIN sendOks : ~sendOks[i]
                       /\ check_confirmations(sendOks)) =>
                          \A i \in DOMAIN todo : sendOks[i] => ConfirmationHandled(todo[i])]_vars

\* one tick failed booking a and went on to complete booking b, which came after it;
\* one tick failed to send the prompt of confirmation c and went on to send that of d
C14_Witness ==
    /\ \E a, b \in scheduled :
          /\ a.id < b.id /\ TextLeq(a.execution_time, b.execution_time)
          /\ a.status = "failed" /\ b.status = "completed"
          /\ a.id \notin passedOver
          /\ autoCount[a.id] = 1 /\ autoCount[b.id] = 1
    /\ \E c, d \in confirmations :
          /\ c.id < d.id /\ c.confirmation_deadline = d.confirmation_deadline
          /\ c.status = "pending" /\ d.status = "pending"
          /\ c.confirmation_message_id = NULL /\ d.confirmation_message_id # NULL


\* C15: at most one automation call is in flight at any time: the executor job is
\* never suspended in a browser call (login or create_booking) while an update
\* handler is suspended in one.
C15_OneCallInFlight == ~(ExecInFlight /\ UserInFlight)


\* C16: a firing of the executor trigger that acquires a session (starts the browser
\* and logs in) has released it when the firing ends, on every exit path: no session
\* acquired by the firing remains open after it.
C16_SessionReleased ==
    [][\A startOk, loginOk \in BOOLEAN, outcomes \in OutcomeSeqs(MaxScheduled) :
          (NeedsSession /\ execute_bookings(startOk, loginOk, outcomes)) =>
              session' = "none"]_vars


\* C17: for every weekday w and every current hour, get_next_date_for_day(w) is a
\* midnight whose weekday is w, 1 to 7 days after today; when today's weekday is w it
\* is today + 7 days, never today.
C17_NextDateInFuture ==
    helperCall.fn = "get_next_date_for_day" =>
        LET d == helperCall.result
            days == FormatDate(d) - FormatDate(now)
            w == day_map[helperCall.day_name]
        IN  /\ d = Midnight(d)
            /\ weekday(d) = w
            /\ 1 <= days /\ days <= DaysPerWeek
            /\ weekday(now) = w => days = DaysPerWeek

\* the helper was asked, in the course of a day, for that day's own weekday and
\* answered the same weekday of next week
C17_Witness ==
    /\ helperCall.fn = "get_next_date_for_day"
    /\ day_map[helperCall.day_name] = weekday(now)
    /\ now # Midnight(now)
    /\ helperCall.result = Midnight(now) + DaysPerWeek * HoursPerDay

\* C18: is_within_instant_booking_window(d) is true exactly when d lies 0, 1 or 2 whole
\* days after today's midnight: false 3 or more days ahead and false for every date
\* before today.
C18_InstantWindow ==
    helperCall.fn = "is_within_instant_booking_window" =>
        LET d == helperCall.target_date
        IN  helperCall.result <=>
                (Midnight(now) <= d /\ d < Midnight(now) + (InstantWindowDays + 1) * HoursPerDay)

\* the helper was asked for the midnight three days ahead and answered false
C18_Witness ==
    /\ helperCall.fn = "is_within_instant_booking_window"
    /\ helperCall.target_date = Midnight(now) + (InstantWindowDays + 1) * HoursPerDay
    /\ helperCall.result = FALSE


\* C19: every persisted ScheduledBooking, made by create_scheduled_booking or by
\* process_periodic_bookings_for_week, has execution_time + 2 days = midnight of its
\* target_date.
C19_ExecutionTimeTwoDaysBefore ==
    \A r \in scheduled :
        ParseDateTime(r.execution_time) + ExecutionLeadDays * HoursPerDay
            = r.target_date * HoursPerDay

\* one booking made by the periodic processor (a confirmation links it to the only
\* periodic booking) next to one made by create_scheduled_booking (for another course)
C19_Witness ==
    \E r1, r2 \in scheduled, c \in confirmations, p \in periodic :
        /\ c.scheduled_booking_id = r1.id /\ c.periodic_booking_id = p.id
        /\ r1.course_id = p.course_id
        /\ r2.course_id # p.course_id

\* C20: when process_periodic_bookings_for_week handles an active periodic booking with
\* requires_confirmation whose next occurrence is outside the instant window, it inserts
\* one ScheduledBooking for that occurrence and one PendingConfirmation linked to it with
\* confirmation_deadline = course_start - confirmation_hours_before and cancel_deadline =
\* course_start - cancel_hours_before (Monday 18:00 with 5h/1h: Monday 13:00 and 17:00).
C20_ConfirmationDeadlines ==
    [][process_periodic =>
          LET newS == scheduled' \ scheduled
              newC == confirmations' \ confirmations
              Outside(p) == ~is_within_instant_booking_window(
                                 get_next_date_for_day(p.day_of_week, now), now)
          IN  /\ Cardinality(newS) = Cardinality({ p \in periodic : p.is_active /\ Outside(p) })
              /\ \A p \in periodic :
                    LET next_date == get_next_date_for_day(p.day_of_week, now)
                        course_start == FormatDate(next_date) * HoursPerDay + p.time_start
                        mine == { c \in newC : c.periodic_booking_id = p.id }
                    IN  (p.is_active /\ p.requires_confirmation /\ Outside(p)) =>
                            /\ Cardinality(mine) = 1
                            /\ \A c \in mine :
                                  /\ Cardinality({ r \in newS : r.id = c.scheduled_booking_id }) = 1
                                  /\ \A r \in newS :
                                        r.id = c.scheduled_booking_id =>
                                            /\ r.course_id = p.course_id
                                            /\ r.target_date = FormatDate(next_date)
                                            /\ r.target_date = c.target_date
                                  /\ ParseDateTime(c.confirmation_deadline)
                                         = course_start - p.confirmation_hours_before
                                  /\ ParseDateTime(c.cancel_deadline)
                                         = course_start - p.cancel_hours_before
                                  /\ (p.day_of_week = "Lunedì" /\ p.time_start = 18) =>
                                         /\ c.confirmation_deadline = <<c.target_date, 13>>
                                         /\ c.cancel_deadline = <<c.target_date, 17>>]_vars

\* the periodic processor has just made, for the Monday 18:00 course, a pending booking
\* and its confirmation with the deadlines at 13:00 and 17:00 of that Monday
C20_Witness ==
    \E r \in scheduled, c \in confirmations :
        /\ <<r.course_id, r.target_date>> \in prevPeriodic
        /\ c.scheduled_booking_id = r.id
        /\ weekday(r.target_date * HoursPerDay) = 0
        /\ c.confirmation_deadline = <<r.target_date, 13>>
        /\ c.cancel_deadline = <<r.target_date, 17>>
        /\ r.status = "pending" /\ c.status = "pending"


\* the start of the course a confirmation stands for, as the text of its datetime:
\* the target_date and time_start of the scheduled booking it is linked to
CourseStart(c) ==
    LET r == CHOOSE r \in scheduled : r.id = c.scheduled_booking_id
    IN  <<r.target_date, r.time_start>>

\* C21: every persisted PendingConfirmation has confirmation_deadline < cancel_deadline
\* <= start of its course, whatever hour settings create_periodic_booking was given.
C21_DeadlinesOrdered ==
    \A c \in confirmations :
        (\E r \in scheduled : r.id = c.scheduled_booking_id) =>
            /\ TextLeq(c.confirmation_deadline, c.cancel_deadline)
            /\ c.confirmation_deadline # c.cancel_deadline
            /\ TextLeq(c.cancel_deadline, CourseStart(c))

\* C22: create_periodic_booking called with confirmation_hours_before not greater than
\* cancel_hours_before raises to its caller and inserts no PeriodicBooking.
C22_BadOrderRejected ==
    [][\A course \in RequestCourses, rc \in BOOLEAN, ch \in ConfigHours, xh \in ConfigHours :
          (ch <= xh /\ create_periodic_booking_hours(course, rc, ch, xh)) =>
              (periodic' = periodic /\ raised')]_vars

\* C23: create_scheduled_booking whose resolved target date lies before today raises to
\* its caller and inserts nothing; otherwise it inserts exactly one ScheduledBooking,
\* with status pending.
C23_PastDateRejected ==
    [][\A course \in RequestCourses, target_date \in {NoDate} \cup RequestDates(now) :
          create_scheduled_booking_on(course, target_date) =>
              IF ResolvedDate(course, target_date, now) < Midnight(now)
              THEN scheduled' = scheduled /\ raised'
              ELSE /\ Cardinality(scheduled' \ scheduled) = 1
                   /\ \A r \in scheduled' \ scheduled : r.status = "pending"]_vars

\* C24: a creation request (scheduled or periodic) for a course whose day_of_week is none
\* of the seven weekday names raises to its caller and inserts nothing.
C24_MalformedWeekdayRejected ==
    [][/\ \A course \in RequestCourses, target_date \in {NoDate} \cup RequestDates(now) :
              (course.day_of_week \notin DOMAIN day_map
               /\ create_scheduled_booking_on(course, target_date)) =>
                  (scheduled' = scheduled /\ raised')
       /\ \A course \in RequestCourses, rc \in BOOLEAN, ch \in ConfigHours, xh \in ConfigHours :
              (course.day_of_week \notin DOMAIN day_map
               /\ create_periodic_booking_hours(course, rc, ch, xh)) =>
                  (periodic' = periodic /\ raised')]_vars


\* C25: after _setup_scheduler the job store holds exactly three recurring jobs (the
\* daily executor, the 10-minute confirmation processor, the daily periodic processor),
\* so exactly one 10-minute job invokes check_confirmations.
C25_ThreeTriggers ==
    /\ Cardinality(jobs) = 3
    /\ Cardinality({ j \in jobs : j.callback = "execute_bookings" /\ j.trigger = CronTrigger }) = 1
    /\ Cardinality({ j \in jobs : j.callback = "process_periodic" /\ j.trigger = CronTrigger }) = 1
    /\ Cardinality({ j \in jobs : /\ j.callback = "check_confirmations"
                                    /\ j.trigger = IntervalTrigger }) = 1

\* what a second firing of check_confirmations would do in the state this step leaves,
\* at the same hour and with every send succeeding
SecondConfirmationTick ==
    LET todo2 == get_confirmations_needing_action(confirmations', now')
    IN  process_pending_confirmations(scheduled', confirmations', periodic', nextMessageId',
                                      now', [i \in 1..Len(todo2) |-> TRUE])

\* C26: a second firing of the executor callback or of the confirmation callback directly
\* after a completed firing (the browser started, every prompt was sent), at the same
\* hour, makes no collaborator call and changes no persisted record.
C26_SecondFiringIsNoOp ==
    [][/\ (session' = "open" /\ UNCHANGED <<now, periodic, confirmations>>) =>
              \A startOk, loginOk \in BOOLEAN, outcomes \in OutcomeSeqs(MaxScheduled) :
                  (execute_bookings(startOk, loginOk, outcomes) /\ ~(NeedsSession /\ ~startOk)) =>
                      get_pending_scheduled_bookings(scheduled', now') = <<>>
       /\ UNCHANGED <<now, periodic, session, autoCount>> =>
              LET todo == get_confirmations_needing_action(confirmations, now)
              IN  check_confirmations([i \in 1..Len(todo) |-> TRUE]) =>
                      /\ SecondConfirmationTick.notified = <<>>
                      /\ SecondConfirmationTick.sched = scheduled'
                      /\ SecondConfirmationTick.confs = confirmations']_vars


\* the execution_time of scheduled booking id, the confirmation_deadline of confirmation id
ExecutionTimeOf(id) == (CHOOSE r \in scheduled : r.id = id).execution_time
DeadlineOf(id) == (CHOOSE c \in confirmations : c.id = id).confirmation_deadline

\* C27: within one tick the executor attempts the due bookings one after the other in
\* non-decreasing execution_time order (every due booking once), and the confirmation
\* processor handles the due confirmations one after the other in non-decreasing
\* confirmation_deadline order.
C27_AscendingOrder ==
    [][/\ (session' = "open" /\ UNCHANGED <<now, periodic, confirmations>>) =>
              LET pending == get_pending_scheduled_bookings(scheduled, now)
              IN  \A startOk, loginOk \in BOOLEAN, outcomes \in [1..Len(pending) -> Outcomes] :
                      (execute_bookings(startOk, loginOk, outcomes)
                       /\ ~(NeedsSession /\ ~startOk)) =>
                          LET r == execute_pending_scheduled_bookings(scheduled, now, outcomes)
                          IN  /\ Len(r.calls) = Cardinality(DueScheduled(scheduled, now))
                              /\ SeqToSet(r.calls) = { b.id : b \in DueScheduled(scheduled, now) }
                              /\ \A i, j \in DOMAIN r.calls :
                                    i < j => TextLeq(ExecutionTimeOf(r.calls[i]),
                                                     ExecutionTimeOf(r.calls[j]))
                              /\ \A i \in DOMAIN r.calls : r.notified[i][2] = r.calls[i]
       /\ UNCHANGED <<now, periodic, session, autoCount>> =>
              LET todo == get_confirmations_needing_action(confirmations, now)
              IN  \A sendOks \in [1..Len(todo) -> BOOLEAN] :
                      check_confirmations(sendOks) =>
                          LET r == process_pending_confirmations(scheduled, confirmations,
                                       periodic, nextMessageId, now, sendOks)
                          IN  \A i, j \in DOMAIN r.notified :
                                  i < j => TextLeq(DeadlineOf(r.notified[i][2]),
                                                   DeadlineOf(r.notified[j][2]))]_vars

\* one tick attempted both bookings although the one inserted first (for Thursday) has
\* the later execution_time: the one due first failed, the other was completed
C27_Witness ==
    \E a, b \in scheduled :
        /\ a.id < b.id
        /\ TextLeq(b.execution_time, a.execution_time) /\ a.execution_time # b.execution_time
        /\ b.status = "failed" /\ a.status = "completed"
        /\ autoCount[a.id] = 1 /\ autoCount[b.id] = 1


\* C28: when a database write raises during a run of the periodic processor, the run
\* leaves nothing half written for the periodic booking it was handling: no new
\* ScheduledBooking of a periodic booking with requires_confirmation is left without
\* the PendingConfirmation linked to it.
C28_NoPartialWrite ==
    [][\A writes \in 0..(2 * MaxPeriodic - 1) :
          process_periodic_failing(writes) =>
              \A r \in scheduled' \ scheduled :
                  (\E p \in periodic : /\ p.is_active /\ p.requires_confirmation
                                        /\ p.course_id = r.course_id) =>
                      \E c \in confirmations' : c.scheduled_booking_id = r.id]_vars

\* C29: in every executor tick, each ScheduledBooking the tick sets to failed has a
\* failure notification sent for it in that tick, whether create_booking returned
\* failure or the attempt raised.
C29_FailureNotified ==
    [][(session' = "open" /\ UNCHANGED <<now, periodic, confirmations>>) =>
          LET pending == get_pending_scheduled_bookings(scheduled, now)
              start == [ sched |-> scheduled, calls |-> <<>>, notified |-> <<>>, failed |-> {} ]
              Notified(r) == \A id \in r.failed : <<"failure", id>> \in SeqToSet(r.notified)
          IN  \A startOk, loginOk \in BOOLEAN, outcomes \in [1..Len(pending) -> Outcomes] :
                  /\ (execute_bookings(startOk, loginOk, outcomes)
                      /\ ~(NeedsSession /\ ~startOk)) =>
                         Notified(ExecuteLoop(start, pending, outcomes))
                  /\ \A k \in DOMAIN pending :
                         execute_bookings_raising(startOk, loginOk, outcomes, k) =>
                             Notified(ExecuteLoopRaising(start, pending, outcomes, k))]_vars


\* C30: a ScheduledBooking cancelled with cancel_scheduled_booking while it was pending
\* and its execution_time had not come is never again among the rows an executor tick
\* selects, and no create_booking call is ever made for it.
C30_CancelledNeverExecuted ==
    [][\A r \in userCancelled :
          /\ ~\E q \in DueScheduled(scheduled, now) : q.id = r.id
          /\ ~\E q \in DueScheduled(scheduled', now') : q.id = r.id
          /\ autoCount'[r.id] = autoCount[r.id]]_vars

\* booking a was cancelled before its execution_time and never attempted, while a tick
\* that ran when that time had come attempted booking b, which was due no earlier
C30_Witness ==
    \E a \in userCancelled : \E b \in scheduled :
        /\ TextLeq(a.execution_time, b.execution_time)
        /\ TextLeq(a.execution_time, SqlNow(now))
        /\ b.status \in {"completed", "failed"}
        /\ autoCount[b.id] = 1
        /\ autoCount[a.id] = 0


\* whole days from today to the next occurrence of periodic booking p
DaysAhead(p) == FormatDate(get_next_date_for_day(p.day_of_week, now)) - FormatDate(now)

\* C31: a tick of process_periodic_bookings_for_week inserts ScheduledBookings and
\* PendingConfirmations only for PeriodicBookings that are in the table and active when it
\* runs: with no active one it inserts nothing, and for every active one whose next
\* occurrence is 3 or more days ahead it inserts a ScheduledBooking.
C31_OnlyActiveProcessed ==
    [][process_periodic =>
          /\ \A c \in confirmations' \ confirmations :
                \E p \in periodic : p.id = c.periodic_booking_id /\ p.is_active
          /\ \A r \in scheduled' \ scheduled :
                \E p \in periodic : /\ p.is_active
                                     /\ p.course_id = r.course_id
                                     /\ p.user_id = r.user_id
          /\ (\A p \in periodic : ~p.is_active) =>
                (scheduled' = scheduled /\ confirmations' = confirmations)
          /\ \A p \in periodic :
                (p.is_active /\ DaysAhead(p) > InstantWindowDays) =>
                    \E r \in scheduled' \ scheduled :
                        /\ r.course_id = p.course_id
                        /\ r.target_date = FormatDate(get_next_date_for_day(p.day_of_week, now))]_vars

\* a periodic booking that had been processed on an earlier day (its confirmation is for
\* another date) was deactivated, and today's run, with its next occurrence 3 or more
\* days ahead, inserted nothing for it
C31_Witness ==
    /\ periodicRan
    /\ \E p \in periodic :
          /\ ~p.is_active
          /\ p.requires_confirmation
          /\ DaysAhead(p) > InstantWindowDays
          /\ \E c \in confirmations : c.periodic_booking_id = p.id
          /\ \A c \in confirmations :
                c.periodic_booking_id = p.id =>
                    c.target_date # FormatDate(get_next_date_for_day(p.day_of_week, now))


(* ------------------------- triggers that keep firing ------------------- *)
\* The process of InitOrder with the user silent: nobody confirms or rejects, periodic
\* bookings may be deactivated or deleted, the process may be stopped and started again.
\* The scheduler fires the 10-minute confirmation jobs and the executor job again and
\* again for as long as the process runs.
NextLive ==
    \/ \E startOk \in BOOLEAN, loginOk \in BOOLEAN, outcomes \in OutcomeSeqs(MaxScheduled) :
          execute_bookings(startOk, loginOk, outcomes)
    \/ \E sendOks \in BoolSeqs(MaxConfirmations) : check_confirmations(sendOks)
    \/ \E p \in periodic : toggle_periodic(p.id)
    \/ \E p \in periodic : delete_periodic_booking(p.id)
    \/ Restart

\* a firing of one of the two confirmation jobs
ConfirmationTick == \E sendOks \in BoolSeqs(MaxConfirmations) : check_confirmations(sendOks)

\* a firing of the executor job in which the browser session can be started
ExecutorTick ==
    \E loginOk \in BOOLEAN, outcomes \in OutcomeSeqs(MaxScheduled) :
        execute_bookings(TRUE, loginOk, outcomes)

\* InitOrder with the first periodic booking prompted at the default lead time: both
\* deadlines of its confirmation have passed by the Tuesday whatever the lead time
InitLive ==
    /\ InitOrder
    /\ \A p \in periodic : p.confirmation_hours_before = default_confirmation_hours_before

SpecLive ==
    /\ InitLive
    /\ [][NextLive]_vars
    /\ WF_vars(ConfirmationTick)
    /\ WF_vars(ExecutorTick)

\* C32: with the confirmation trigger firing again and again and the user silent, every
\* PendingConfirmation that is pending past its cancel_deadline eventually becomes
\* auto_cancelled, whether or not its PeriodicBooking was deactivated or deleted meanwhile.
C32_EventuallyAutoCancelled ==
    (\E c \in confirmations : c.status = "pending" /\ now >= ParseDateTime(c.cancel_deadline))
        ~> (\A c \in confirmations :
               now >= ParseDateTime(c.cancel_deadline) => c.status = "auto_cancelled")

\* the rows in status pending whose execution_time has come
PendingAndDue == { r \in scheduled : r.status = "pending" /\ ParseDateTime(r.execution_time) <= now }

\* C33: with the executor trigger firing again and again with a session available, every
\* pending ScheduledBooking reaches completed, failed or cancelled no later than the
\* first tick at or after its execution_time, across restarts of the process: a firing
\* in which the session can be started leaves no ScheduledBooking pending whose
\* execution_time has come, and a ScheduledBooking that is pending with its
\* execution_time come, also one that came due while the process was stopped, leaves
\* status pending for completed, failed or cancelled.
C33_ExecutionLive ==
    /\ [][ExecutorTick =>
             \A r \in scheduled' :
                 ~(r.status = "pending" /\ ParseDateTime(r.execution_time) <= now)]_vars
    /\ (PendingAndDue # {})
           ~> (\A r \in scheduled :
                  ParseDateTime(r.execution_time) <= now =>
                      r.status \in {"completed", "failed", "cancelled"})

\* a booking whose execution_time passed on an earlier day, while the process was
\* stopped, has been executed by the tick after the restart
C33_Witness ==
    \E r \in scheduled :
        /\ r.status \in {"completed", "failed"}
        /\ r.execution_time[1] < SqlNow(now)[1]
        /\ autoCount[r.id] = 1
        /\ session = "open"


(* ------------- the two confirmation jobs interleaving at awaits -------- *)
\* check_confirmations is registered under the job ids confirmation_checker and
\* auto_cancel_checker, both with a 10-minute interval trigger.  The scheduler keeps one
\* running instance per job id, so one firing of each may run at a time; they are
\* coroutines of one event loop, each running until it awaits bot.send_message.

\* process_pending_confirmations from the head of its loop to its next await: the rows
\* in todo are those its query returned, with the values they had then
RECURSIVE ConfRun(_, _, _, _, _)
ConfRun(sched, confs, per, todo, t) ==
    IF todo = <<>> THEN [ sched |-> sched, confs |-> confs, task |-> IdleTask ]
    ELSE LET confirmation == Head(todo)
         IN  IF confirmation.confirmation_message_id = NULL
             THEN IF ReachesSend(per, confirmation)
                  THEN [ sched |-> sched, confs |-> confs,
                         task |-> [pc |-> "send_message", todo |-> todo] ]
                  ELSE ConfRun(sched, confs, per, Tail(todo), t)
             ELSE IF t >= ParseDateTime(confirmation.cancel_deadline)
                  THEN LET st == auto_cancel_unconfirmed(
                                     [ sched |-> sched, confs |-> confs, notified |-> <<>> ],
                                     confirmation)
                       IN  [ sched |-> st.sched, confs |-> st.confs,
                             task |-> [pc |-> "notify", todo |-> todo] ]
                  ELSE ConfRun(sched, confs, per, Tail(todo), t)

\* a confirmation job fires: the query, then the loop up to its first await
ConfStart(job) ==
    /\ confTask[job].pc = "idle"
    /\ LET r == ConfRun(scheduled, confirmations, periodic,
                        get_confirmations_needing_action(confirmations, now), now)
       IN  /\ scheduled' = r.sched
           /\ confirmations' = r.confs
           /\ confTask' = [confTask EXCEPT ![job] = r.task]
    /\ prevPeriodic' = {}
    /\ raised' = FALSE
    /\ UNCHANGED <<now, periodic, nextScheduledId, nextPeriodicId, nextConfirmationId,
                   procVars, autoCount, failedEver, rejCancelled, passedOver, taskVars,
                   helperCall, jobs, userCancelled, promptCount>>

\* bot.send_message returns to _send_confirmation_request, or raises: the message id of
\* a delivered prompt is stored, and the loop goes on to its next await
ConfSendReturn(job, sendOk) ==
    /\ confTask[job].pc = "send_message"
    /\ LET confirmation == Head(confTask[job].todo)
           confs1 == IF sendOk
                     THEN update_confirmation_message_id(confirmations, confirmation.id,
                                                         nextMessageId)
                     ELSE confirmations
           r == ConfRun(scheduled, confs1, periodic, Tail(confTask[job].todo), now)
       IN  /\ scheduled' = r.sched
           /\ confirmations' = r.confs
           /\ confTask' = [confTask EXCEPT ![job] = r.task]
           /\ promptCount' = IF sendOk THEN Bump(promptCount, confirmation.id) ELSE promptCount
    /\ nextMessageId' = IF sendOk THEN nextMessageId + 1 ELSE nextMessageId
    /\ prevPeriodic' = {}
    /\ raised' = FALSE
    /\ UNCHANGED <<now, periodic, nextScheduledId, nextPeriodicId, nextConfirmationId,
                   session, loggedIn, periodicRan, autoCount, failedEver, rejCancelled,
                   passedOver, taskVars, helperCall, jobs, userCancelled>>

\* _send_notification_with_menu returns to _auto_cancel_unconfirmed
ConfNotifyReturn(job) ==
    /\ confTask[job].pc = "notify"
    /\ LET r == ConfRun(scheduled, confirmations, periodic, Tail(confTask[job].todo), now)
       IN  /\ scheduled' = r.sched
           /\ confirmations' = r.confs
           /\ confTask' = [confTask EXCEPT ![job] = r.task]
    /\ prevPeriodic' = {}
    /\ raised' = FALSE
    /\ UNCHANGED <<now, periodic, nextScheduledId, nextPeriodicId, nextConfirmationId,
                   procVars, autoCount, failedEver, rejCancelled, passedOver, taskVars,
                   helperCall, jobs, userCancelled, promptCount>>

NextPrompts ==
    \/ AdvanceClock
    \/ \E course \in Courses, rc \in BOOLEAN : create_periodic_booking(course, rc)
    \/ process_periodic
    \/ \E job \in ConfJobs : ConfStart(job)
    \/ \E job \in ConfJobs, sendOk \in BOOLEAN : ConfSendReturn(job, sendOk)
    \/ \E job \in ConfJobs : ConfNotifyReturn(job)
    \/ \E c \in confirmations : confirm_booking(c.id)
    \/ \E c \in confirmations : reject_booking(c.id)

SpecPrompts == Init /\ [][NextPrompts]_vars

\* C34: whatever the interleaving of the firings of the two confirmation jobs at their
\* awaits, at most one confirmation prompt is delivered for each PendingConfirmation.
C34_AtMostOnePrompt == \A id \in DOMAIN promptCount : promptCount[id] <= 1


\* C35: an executor tick at whose start the browser session cannot be started, or the
\* login fails, leaves every ScheduledBooking that was due in status failed.
C35_SessionFailureMarksFailed ==
    [][\A startOk \in BOOLEAN, loginOk \in BOOLEAN, outcomes \in OutcomeSeqs(MaxScheduled) :
          ( /\ NeedsSession
            /\ ~startOk \/ ~loginOk
            /\ execute_bookings(startOk, loginOk, outcomes) )
          => \A r \in scheduled :
                (r.status = "pending" /\ ParseDateTime(r.execution_time) <= now)
                    => StatusOf(scheduled', r.id) = "failed"]_vars


\* C36: at a tick of the daily periodic processor, every active PeriodicBooking whose
\* next occurrence is 3 or more days ahead has, after the tick, a ScheduledBooking for
\* that occurrence in status pending whose execution_time (midnight two days before the
\* target_date) is still to come, so that it is persisted before an executor tick
\* reaches that time.
C36_ScheduledAheadOfExecution ==
    [][process_periodic =>
          \A p \in periodic :
              (p.is_active /\ DaysAhead(p) > InstantWindowDays) =>
                  \E r \in scheduled' :
                      /\ r.course_id = p.course_id
                      /\ r.user_id = p.user_id
                      /\ r.target_date = FormatDate(now) + DaysAhead(p)
                      /\ r.status = "pending"
                      /\ ParseDateTime(r.execution_time) > now
                      /\ ParseDateTime(r.execution_time)
                             = (r.target_date - ExecutionLeadDays) * HoursPerDay]_vars

\* the processor has just persisted, three days before the course, a pending booking
\* whose execution_time is the coming midnight
C36_Witness ==
    \E r \in scheduled, p \in periodic :
        /\ p.is_active
        /\ r.course_id = p.course_id
        /\ <<r.course_id, r.target_date>> \in prevPeriodic
        /\ r.status = "pending"
        /\ r.target_date = FormatDate(now) + InstantWindowDays + 1
        /\ ParseDateTime(r.execution_time) = Midnight(now) + HoursPerDay


\* C37: whatever periodic-processor ticks have run, no two PendingConfirmations have the
\* same periodic_booking_id and the same target_date.
C37_OneConfirmationPerOccurrence ==
    \A c, d \in confirmations :
        (c.periodic_booking_id = d.periodic_booking_id /\ c.target_date = d.target_date)
            => c.id = d.id


\* C38: a tick of process_periodic_bookings_for_week inserts a PendingConfirmation for a
\* PeriodicBooking exactly when it inserts a ScheduledBooking for it and the
\* PeriodicBooking has requires_confirmation; each PendingConfirmation it inserts
\* references a ScheduledBooking inserted in the same tick, for the same user, course
\* and target_date, referenced by no other, and has status pending and no message handle.
C38_ConfirmationIffRequired ==
    [][process_periodic =>
          LET newS == scheduled' \ scheduled
              newC == confirmations' \ confirmations
          IN  /\ \A p \in periodic :
                    Cardinality({ c \in newC : c.periodic_booking_id = p.id }) =
                        IF /\ p.is_active
                           /\ p.requires_confirmation
                           /\ DaysAhead(p) > InstantWindowDays
                        THEN 1 ELSE 0
              /\ \A c \in newC :
                    /\ c.status = "pending"
                    /\ c.confirmation_message_id = NULL
                    /\ \E p \in periodic, r \in newS :
                          /\ p.id = c.periodic_booking_id
                          /\ r.id = c.scheduled_booking_id
                          /\ r.course_id = p.course_id
                          /\ r.user_id = c.user_id
                          /\ p.user_id = c.user_id
                          /\ r.target_date = c.target_date
                          /\ r.status = "pending"
                    /\ \A d \in newC :
                          d.scheduled_booking_id = c.scheduled_booking_id => d.id = c.id]_vars

\* two ticks have run for a periodic booking with requires_confirmation: each
\* confirmation references the booking made by its own tick
C38_Witness ==
    /\ prevPeriodic # {}
    /\ \E c, d \in confirmations, r, s \in scheduled :
          /\ c.id < d.id
          /\ r.id < s.id
          /\ c.scheduled_booking_id = r.id
          /\ d.scheduled_booking_id = s.id
          /\ d.confirmation_message_id = NULL
          /\ d.status = "pending"


\* C39: a tick of process_periodic_bookings_for_week inserts a ScheduledBooking for an
\* active PeriodicBooking if and only if its next occurrence is 3 to 7 days ahead; for
\* one whose next occurrence is 1 or 2 days ahead it inserts neither a ScheduledBooking
\* nor a PendingConfirmation, and the tick makes no call to the automation collaborator.
C39_CreatedIffOutsideWindow ==
    [][process_periodic =>
          LET newS == scheduled' \ scheduled
              newC == confirmations' \ confirmations
              Outside(p) == /\ p.is_active
                            /\ InstantWindowDays < DaysAhead(p)
                            /\ DaysAhead(p) <= DaysPerWeek
          IN  /\ \A q \in periodic :
                    Cardinality({ r \in newS : r.course_id = q.course_id }) =
                        Cardinality({ p \in periodic : p.course_id = q.course_id /\ Outside(p) })
              /\ \A r \in newS : \E p \in periodic : p.course_id = r.course_id
              /\ \A p \in periodic :
                    DaysAhead(p) \in 1..InstantWindowDays =>
                        \A c \in newC : c.periodic_booking_id # p.id
              /\ autoCount' = autoCount
              /\ session' = session
              /\ loggedIn' = loggedIn]_vars

\* the tick of an earlier day made one booking and one confirmation for the periodic
\* booking; today's tick, with the occurrence 1 or 2 days ahead, has added nothing
C39_Witness ==
    /\ periodicRan
    /\ \E p \in periodic :
          /\ p.is_active
          /\ DaysAhead(p) \in 1..InstantWindowDays
          /\ Cardinality({ c \in confirmations : c.periodic_booking_id = p.id }) = 1
          /\ Cardinality({ r \in scheduled : r.course_id = p.course_id }) = 1


(* ------------------ an executor without a session manager -------------- *)
\* BookingExecutor(db) is built with session_manager = None; the bot's job callback
\* assigns a SessionManager before it calls execute_pending_scheduled_bookings, the
\* test_executor routine of booking_executor.py calls it on the executor as built.

\* execute_pending_scheduled_bookings that goes on without a session manager
execute_pending_scheduled_bookings_on_NoGuard(session_manager, sched, t, outcomes) ==
    execute_pending_scheduled_bookings(sched, t, outcomes)

\* BookingExecutor.execute_pending_scheduled_bookings; session_manager is NULL for None
execute_pending_scheduled_bookings_on(session_manager, sched, t, outcomes) ==
    LET pending == get_pending_scheduled_bookings(sched, t)
        st == [ sched |-> sched, calls |-> <<>>, notified |-> <<>>, failed |-> {} ]
    IN  IF pending = <<>> THEN st
        ELSE IF session_manager = NULL THEN st
        ELSE ExecuteLoop(st, pending, outcomes)

\* test_executor: execute_pending_scheduled_bookings called on an executor built
\* without a session manager; outcomes: what create_booking would return if called
test_executor(outcomes) ==
    LET pending == get_pending_scheduled_bookings(scheduled, now)
        r == execute_pending_scheduled_bookings_on(NULL, scheduled, now, outcomes)
    IN  /\ Len(outcomes) = Len(pending)
        /\ scheduled' = r.sched
        /\ autoCount' = BumpAll(autoCount, r.calls)
        /\ failedEver' = failedEver \cup r.failed
        /\ helperCall' = [ fn |-> "execute_pending_scheduled_bookings",
                           pending |-> Ids(pending) ]
        /\ prevPeriodic' = {}
        /\ raised' = FALSE
        /\ UNCHANGED <<now, periodic, confirmations, nextScheduledId, nextPeriodicId,
                       nextConfirmationId, procVars, rejCancelled, passedOver, taskVars,
                       extVars>>

NextDirect ==
    \/ AdvanceClock
    \/ \E course \in Courses : create_scheduled_booking(course)
    \/ \E outcomes \in OutcomeSeqs(MaxScheduled) : test_executor(outcomes)
    \/ \E startOk \in BOOLEAN, loginOk \in BOOLEAN, outcomes \in OutcomeSeqs(MaxScheduled) :
          execute_bookings(startOk, loginOk, outcomes)

SpecDirect == Init /\ [][NextDirect]_vars

\* C40: a call of execute_pending_scheduled_bookings on an executor without a session
\* manager makes no call to the automation collaborator and changes no record: every
\* ScheduledBooking that was due is still pending and is in the result of the query of
\* the next tick.
C40_NoSessionManagerIsNoOp ==
    [][\A outcomes \in OutcomeSeqs(MaxScheduled) :
          test_executor(outcomes) =>
              /\ UNCHANGED dbVars
              /\ autoCount' = autoCount
              /\ UNCHANGED <<session, loggedIn>>
              /\ \A r \in scheduled :
                    (r.status = "pending" /\ ParseDateTime(r.execution_time) <= now) =>
                        \E i \in DOMAIN get_pending_scheduled_bookings(scheduled', now') :
                            get_pending_scheduled_bookings(scheduled', now')[i] = r]_vars

\* the call found a due booking and returned at the missing session manager: the
\* booking is still pending and was never passed to the automation
C40_Witness ==
    /\ helperCall.fn = "execute_pending_scheduled_bookings"
    /\ helperCall.pending # <<>>
    /\ session = "none"
    /\ \A i \in DOMAIN helperCall.pending :
          /\ StatusOf(scheduled, helperCall.pending[i]) = "pending"
          /\ autoCount[helperCall.pending[i]] = 0

=============================================================================
